---- MODULE Spec2Model ----
(***************************************************************************)
(* CRONOS voice assistant: the full-duplex VAD / barge-in engine           *)
(* (sts_engine.py), the TTS playback coordination (streaming_tts.py and    *)
(* the orchestrator's callbacks) and the debounce coalescer of the         *)
(* orchestrator (sts_orchestrator.py).                                     *)
(*                                                                         *)
(* Numbers.  Energies are whole RMS units.  Thresholds and the two         *)
(* exponential moving averages are kept in 1/EnergyScale units; the        *)
(* factors 0.08, 0.15, 1.6, 1.8 and 1.2 of the source are written in       *)
(* hundredths (_PCT).  A comparison "energy > threshold" of the source is  *)
(* exact here (an integer exceeds x iff it exceeds the floor of x); an     *)
(* EMA is rounded down to 1/EnergyScale where the source rounds to the     *)
(* nearest double.  Time is in milliseconds.                               *)
(***************************************************************************)
EXTENDS Integers, Sequences, FiniteSets, TLC

\* ---------------------------------------------------------------- constants
\* sts_engine.py, module configuration
FRAME_DURATION_MS == 30
SILENCE_THRESHOLD == 250
\* defaults of CRONO_SPEECH_START_FRAMES and CRONO_SILENCE_END_FRAMES
DEFAULT_SPEECH_START_FRAMES == 2
DEFAULT_SILENCE_END_FRAMES == 16
MAX_RECORDING_FRAMES == 500
BARGE_IN_GUARD_MS == 250
BARGE_IN_COOLDOWN_MS == 350
BARGE_IN_MULTIPLIER_PCT == 160
BARGE_IN_DELTA == 200
TTS_BASELINE_EMA_ALPHA_PCT == 15
NOISE_FLOOR_EMA_ALPHA_PCT == 8
NOISE_FLOOR_MULTIPLIER_PCT == 180
NOISE_FLOOR_MARGIN == 40
\* the factor 1.2 of "energy <= (SILENCE_THRESHOLD * 1.2)"
NOISE_FLOOR_GATE_PCT == 120
\* STSEngine.__init__: self._echo_threshold_boost
ECHO_THRESHOLD_BOOST == 200
\* _finish_recording: "if buffer_size > 5"
MIN_BUFFER_FRAMES == 5
\* CRONO_LLM_DEBOUNCE_MAX_PARTS default
DEFAULT_DEBOUNCE_MAX_PARTS == 4
\* "len(text.split()) <= 3" in _enqueue_voice_input
SHORT_FRAGMENT_TOKENS == 3
\* "len(text) < 2" in _transcribe_async
MIN_TRANSCRIPT_CHARS == 2

\* ------------------------------------------------------------------- bounds
\* frames the capture loop reads in the engine specification
MaxFrames == 11
\* largest configured CRONO_SPEECH_START_FRAMES and CRONO_SILENCE_END_FRAMES
\* explored in the engine specification
MaxStartFrames == 3
MaxEndFrames == 2
\* fixed-point denominator of thresholds and moving averages
EnergyScale == 1000
\* the two frame energies the microphone delivers in the engine specification
QuietEnergy == 100
LoudEnergy == 1000
\* time.time() when the engine is constructed, in ms: positive and further
\* from 0 than every window and cooldown of the program
Epoch == 2000
\* scripted runs: quiet frames before a turn, echo frames before a jump
MaxLeadFrames == 2
MaxEchoFrames == 2
\* playback threads started in a run of the TTS specification
MaxPlaybacks == 2
\* calls of request_interrupt made from outside the engine in a run
MaxRequests == 1
\* fragments accepted in a run of the debounce specification
MaxFragments == 5
\* the debounce windows in ticks of the debounce clock: standard and extended
StdWindowTicks == 1
ShortWindowTicks == 2
\* the smallest fragment cap a run is configured with
MinMaxParts == 2
\* utterances heard in a run of the intent pipeline
MaxUtterances == 2
\* a stream of constant energy: its length, and the number of frames after
\* which the noise floor has settled
FloorRunFrames == 160
FloorSettleFrames == 150

VARIABLES
    \* STSEngine fields
    is_speaking, tts_audio_playing, is_listening, interrupt_requested,
    audio_buffer, _speech_frames, _silence_frames, _is_recording,
    _tts_energy_ema, _tts_energy_initialized, _tts_started_at, _ignore_until,
    _noise_floor_ema, _noise_floor_initialized, _total_frames, last_energy,
    \* the executor's queue of _transcribe_async tasks (each the copied audio)
    submitted,
    \* module configuration read from the environment at import
    SPEECH_START_FRAMES, SILENCE_END_FRAMES,
    \* the capture thread: where it is in _audio_loop and the frame it holds
    pc, frame,
    \* time.time(), in ms
    now,
    \* observation of the last step: callbacks it fired, how the frame was
    \* classified, and the lengths of the classification runs so far
    emitted, lastClass, lastEcho, speechRun, silenceRun,
    \* a scripted run: the scenario chosen and the inputs still to be fed
    scenario, script,
    \* streaming_tts module state: the stop event, the playing flag, the holder
    \* of _playback_lock (0 when free) and each _playback_thread's position
    _stop_event, _is_playing, _playback_lock, playback,
    \* the orchestrator: the ui object it was built with, and its TTS bookkeeping
    ui, _tts_active, _last_interrupt_at,
    \* the interrupt requests made so far, each with who made it and what
    \* _on_interrupt found and did
    requests,
    \* the orchestrator's debounce: its configuration, the pending fragments,
    \* the debounce tasks created so far (_voice_debounce_task is the index of
    \* the one the orchestrator refers to, 0 for None), the calls made to
    \* _process_user_input, and the fragments accepted so far (each with what
    \* it found on arrival: a sleeping timer, an empty pending list, and the
    \* number of calls made before it)
    _debounce_window, _debounce_short_window, _debounce_max_parts,
    _voice_buffer_parts, _voice_debounce_task, tasks, forwarded, heard,
    \* the engine's life cycle: the running flag, the engine's own stop event
    \* (STSEngine._stop_event), where _audio_thread is in _audio_loop
    \* ("None" before the first start), where the caller is in stop(), and
    \* what the capture thread did since the stop flag was last set
    running, sts_stop_event, _audio_thread, caller, sinceStop,
    \* the executor: the _transcribe_async runs that have ended, by the index
    \* of the utterance in `submitted`, and the calls made to on_speech_end
    transcriptions, delivered,
    \* the intent pipeline: the request execute_pipeline is working on (the
    \* index of its _process_user_input call in `forwarded`, 0 when idle) and
    \* its phase, and how each request it took up ended
    pipeline, handled,
    \* the orchestrator's voice-active indicator, and the on_speech_start
    \* calls the engine submitted to the executor that have not run yet
    _voice_active, speech_starts,
    \* the engine's _vad_lock as the capture thread holds it ("free", "capture"
    \* while it is in _process_frame, "callback" while it is in on_interrupt;
    \* the other holders take and release it within one step), and the
    \* set_listening call the UI thread is about to make ("none" before it has
    \* one to make, "done" once the call has returned)
    _vad_lock, ui_call,
    \* a capture thread that stop() gave up on and start() has replaced in
    \* self._audio_thread: where it is in _audio_loop ("None" when there is
    \* none); and whether stop() has closed the stream that the thread it gave
    \* up on is still using
    stale_thread, stream_closed

engineVars == <<is_speaking, tts_audio_playing, is_listening, interrupt_requested,
                audio_buffer, _speech_frames, _silence_frames, _is_recording,
                _tts_energy_ema, _tts_energy_initialized, _tts_started_at,
                _ignore_until, _noise_floor_ema, _noise_floor_initialized,
                _total_frames, last_energy, submitted, SPEECH_START_FRAMES,
                SILENCE_END_FRAMES, pc, frame, now, emitted, lastClass,
                lastEcho, speechRun, silenceRun>>

ttsVars == <<_stop_event, _is_playing, _playback_lock, playback, ui, _tts_active,
             _last_interrupt_at, requests>>

\* what the engine's own operations never touch
debounceVars == <<_debounce_window, _debounce_short_window, _debounce_max_parts,
                  _voice_buffer_parts, _voice_debounce_task, tasks, forwarded,
                  heard>>

lifeVars == <<running, sts_stop_event, _audio_thread, caller, sinceStop>>

sttVars == <<transcriptions, delivered>>

pipeVars == <<pipeline, handled>>

voiceVars == <<_voice_active, speech_starts>>

lockVars == <<_vad_lock, ui_call>>

restartVars == <<stale_thread, stream_closed>>

coVars == <<ttsVars, debounceVars, lifeVars, sttVars, pipeVars, voiceVars, lockVars,
           restartVars>>

vars == <<engineVars, scenario, script, coVars>>

\* ------------------------------------------------------------------ helpers
Max(a, b) == IF a >= b THEN a ELSE b

Milli(e) == e * EnergyScale

\* (1 - alpha) * ema + alpha * energy
EmaBlend(alphaPct, ema, energy) ==
    ((100 - alphaPct) * ema + alphaPct * Milli(energy)) \div 100

\* collections.deque(maxlen=MAX_RECORDING_FRAMES).append
DequeAppend(buf, x) ==
    IF Len(buf) >= MAX_RECORDING_FRAMES THEN Append(Tail(buf), x) ELSE Append(buf, x)

\* ---------------------------------------------------------------- STSEngine
EngineInit ==
    /\ is_speaking = FALSE
    /\ tts_audio_playing = FALSE
    /\ is_listening = TRUE
    /\ interrupt_requested = FALSE
    /\ audio_buffer = <<>>
    /\ _speech_frames = 0
    /\ _silence_frames = 0
    /\ _is_recording = FALSE
    /\ _tts_energy_ema = 0
    /\ _tts_energy_initialized = FALSE
    /\ _tts_started_at = 0
    /\ _ignore_until = 0
    /\ _noise_floor_ema = 0
    /\ _noise_floor_initialized = FALSE
    /\ _total_frames = 0
    /\ last_energy = 0
    /\ submitted = <<>>
    /\ pc = "read"
    /\ frame = [id |-> 0, energy |-> 0, threshold |-> 0]
    /\ now = Epoch
    /\ emitted = {}
    /\ lastClass = "none"
    /\ lastEcho = FALSE
    /\ speechRun = 0
    /\ silenceRun = 0

\* STSEngine._get_effective_threshold
GetEffectiveThreshold ==
    LET base == IF _noise_floor_initialized
                THEN Max(Milli(SILENCE_THRESHOLD),
                         (_noise_floor_ema * NOISE_FLOOR_MULTIPLIER_PCT) \div 100
                             + Milli(NOISE_FLOOR_MARGIN))
                ELSE Milli(SILENCE_THRESHOLD)
    IN  IF is_speaking THEN base + Milli(ECHO_THRESHOLD_BOOST) ELSE base

\* mutant: no guard window after TTS starts
NeverInGuardWindow == FALSE

\* the guard window test of _is_barge_in_speech
InGuardWindow ==
    _tts_started_at # 0 /\ (now - _tts_started_at) < BARGE_IN_GUARD_MS

\* mutant: the first frame after the guard window is compared with an empty
\* baseline
TtsEmaStartsEmpty(energy) ==
    IF ~_tts_energy_initialized
    THEN 0
    ELSE EmaBlend(TTS_BASELINE_EMA_ALPHA_PCT, _tts_energy_ema, energy)

\* the baseline after _is_barge_in_speech has seen `energy`
NextTtsEma(energy) ==
    IF ~_tts_energy_initialized
    THEN Milli(energy)
    ELSE EmaBlend(TTS_BASELINE_EMA_ALPHA_PCT, _tts_energy_ema, energy)

\* mutant: the dynamic threshold forgets the tracked baseline
DynamicThresholdIgnoringBaseline(base_threshold, ema) == base_threshold

\* mutant: the dynamic threshold forgets the floor base_threshold
DynamicThresholdWithoutFloor(base_threshold, ema) ==
    (ema * BARGE_IN_MULTIPLIER_PCT) \div 100 + Milli(BARGE_IN_DELTA)

\* dynamic_threshold of _is_barge_in_speech
DynamicThreshold(base_threshold, ema) ==
    Max(base_threshold, (ema * BARGE_IN_MULTIPLIER_PCT) \div 100 + Milli(BARGE_IN_DELTA))

\* STSEngine._is_barge_in_speech: its result and the baseline it leaves
IsBargeInSpeech(energy, base_threshold) ==
    IF InGuardWindow
    THEN [speech |-> FALSE, ema |-> _tts_energy_ema, init |-> _tts_energy_initialized]
    ELSE [speech |-> Milli(energy) > DynamicThreshold(base_threshold, NextTtsEma(energy)),
          ema |-> NextTtsEma(energy), init |-> TRUE]

\* mutant: no cooldown after TTS stops
NeverInCooldown == FALSE

\* the post-TTS cooldown test of _process_frame
InCooldown == _ignore_until # 0 /\ now < _ignore_until

\* mutant: every idle frame is blended into the noise floor, loud or not
NoiseFloorUngated(energy) ==
    IF ~_noise_floor_initialized
    THEN Milli(energy)
    ELSE EmaBlend(NOISE_FLOOR_EMA_ALPHA_PCT, _noise_floor_ema, energy)

\* mutant: the noise floor, once initialised, is never updated
NoiseFloorStuck(energy) ==
    IF ~_noise_floor_initialized THEN Milli(energy) ELSE _noise_floor_ema

\* the noise floor after an idle frame of `energy`
NextNoiseFloor(energy) ==
    IF ~_noise_floor_initialized
    THEN Milli(energy)
    ELSE IF energy * 100 <= SILENCE_THRESHOLD * NOISE_FLOOR_GATE_PCT
         THEN EmaBlend(NOISE_FLOOR_EMA_ALPHA_PCT, _noise_floor_ema, energy)
         ELSE _noise_floor_ema

\* mutant: confirmation needs one frame more
SpeechConfirmedStrict(n) == n > SPEECH_START_FRAMES

\* "self._speech_frames >= SPEECH_START_FRAMES"
SpeechConfirmed(n) == n >= SPEECH_START_FRAMES

\* mutant: a non-speech frame leaves the speech counter as it is
KeepSpeechFrames(n) == n

\* "self._speech_frames = max(0, self._speech_frames - 1)  # Decay"
DecaySpeechFrames(n) == Max(0, n - 1)

\* mutant: the end-of-speech test is off by one
SpeechEndedOffByOne(n) == n + 1 >= SILENCE_END_FRAMES

\* "self._silence_frames >= SILENCE_END_FRAMES"
SpeechEnded(n) == n >= SILENCE_END_FRAMES

\* mutant: the cap test asks for more than the deque can hold
BufferOverfull(buf) == Len(buf) > MAX_RECORDING_FRAMES

\* "len(self.audio_buffer) >= MAX_RECORDING_FRAMES"
BufferFull(buf) == Len(buf) >= MAX_RECORDING_FRAMES

\* mutant: only buffers of more than 20 frames are worth transcribing
FinishNeedsLongBuffer(buf) == Len(buf) > MIN_BUFFER_FRAMES * 4

\* _finish_recording: "if buffer_size > 5" submits a copy of the buffer
FinishSubmits(buf) == Len(buf) > MIN_BUFFER_FRAMES

\* mutant: confirmation raises no interrupt
NeverRequestsInterrupt == FALSE

\* "if self.is_speaking: self.request_interrupt()" on confirmation
RequestsInterrupt == is_speaking

\* STSEngine.set_speaking
SetSpeaking(speaking) ==
    /\ is_speaking' = speaking
    /\ tts_audio_playing' = speaking
    /\ _tts_energy_initialized' = FALSE
    /\ IF speaking
       THEN /\ _tts_started_at' = now
            /\ UNCHANGED <<_tts_energy_ema, _ignore_until>>
       ELSE /\ _tts_energy_ema' = 0
            /\ _ignore_until' = now + BARGE_IN_COOLDOWN_MS
            /\ UNCHANGED _tts_started_at
    /\ UNCHANGED <<is_listening, interrupt_requested, audio_buffer, _speech_frames,
                   _silence_frames, _is_recording, _noise_floor_ema,
                   _noise_floor_initialized, _total_frames, last_energy, submitted,
                   SPEECH_START_FRAMES, SILENCE_END_FRAMES, pc, frame, now,
                   lastClass, lastEcho, speechRun, silenceRun, scenario>>
    /\ emitted' = {}

\* STSEngine.set_listening
SetListening(listening) ==
    /\ is_listening' = listening
    /\ IF ~listening
       THEN /\ _is_recording' = FALSE
            /\ audio_buffer' = <<>>
            /\ _speech_frames' = 0
            /\ _silence_frames' = 0
       ELSE UNCHANGED <<_is_recording, audio_buffer, _speech_frames, _silence_frames>>
    /\ UNCHANGED <<is_speaking, tts_audio_playing, interrupt_requested,
                   _tts_energy_ema, _tts_energy_initialized, _tts_started_at,
                   _ignore_until, _noise_floor_ema, _noise_floor_initialized,
                   _total_frames, last_energy, submitted, SPEECH_START_FRAMES,
                   SILENCE_END_FRAMES, pc, frame, now, lastClass, lastEcho,
                   speechRun, silenceRun, scenario>>
    /\ emitted' = {}

\* mutant: the threshold already reflects the frame's own contribution to
\* the noise floor
ThresholdAfterFloorUpdate(energy) ==
    LET idle == ~is_speaking /\ ~_is_recording
        floor == IF idle THEN NextNoiseFloor(energy) ELSE _noise_floor_ema
        base == IF idle \/ _noise_floor_initialized
                THEN Max(Milli(SILENCE_THRESHOLD),
                         (floor * NOISE_FLOOR_MULTIPLIER_PCT) \div 100
                             + Milli(NOISE_FLOOR_MARGIN))
                ELSE Milli(SILENCE_THRESHOLD)
    IN  IF is_speaking THEN base + Milli(ECHO_THRESHOLD_BOOST) ELSE base

\* "threshold = self._get_effective_threshold()" in _audio_loop, before
\* _process_frame is called with the frame
ThresholdForFrame(energy) == GetEffectiveThreshold

\* _audio_loop, one iteration up to the call of _process_frame: the blocking
\* stream.read of one frame, its energy, the threshold (computed without the
\* lock) and the frame count
ReadFrame(energy) ==
    /\ pc = "read"
    /\ pc' = "process"
    /\ now' = now + FRAME_DURATION_MS
    /\ _total_frames' = _total_frames + 1
    /\ frame' = [id |-> _total_frames + 1, energy |-> energy,
                 threshold |-> ThresholdForFrame(energy)]
    /\ emitted' = {}
    /\ UNCHANGED <<is_speaking, tts_audio_playing, is_listening, interrupt_requested,
                   audio_buffer, _speech_frames, _silence_frames, _is_recording,
                   _tts_energy_ema, _tts_energy_initialized, _tts_started_at,
                   _ignore_until, _noise_floor_ema, _noise_floor_initialized,
                   last_energy, submitted, SPEECH_START_FRAMES, SILENCE_END_FRAMES,
                   lastClass, lastEcho, speechRun, silenceRun, scenario>>

\* mutant: the forced return to idle forgets audio_buffer.clear()
ForceIdleKeepsBuffer ==
    /\ _is_recording' = FALSE
    /\ audio_buffer' = audio_buffer
    /\ _speech_frames' = 0
    /\ _silence_frames' = 0
    /\ UNCHANGED <<interrupt_requested, submitted>>
    /\ emitted' = {}

\* _process_frame, the two early returns (listening disabled, cooldown) and
\* the "TTS is speaking and no barge-in speech" return: force idle
ForceIdle ==
    /\ _is_recording' = FALSE
    /\ audio_buffer' = IF _is_recording THEN <<>> ELSE audio_buffer
    /\ _speech_frames' = 0
    /\ _silence_frames' = 0
    /\ UNCHANGED <<interrupt_requested, submitted>>
    /\ emitted' = {}

\* _process_frame, "if not self._is_recording" branch
WaitForSpeech(is_speech) ==
    IF is_speech
    THEN /\ _speech_frames' = _speech_frames + 1
         /\ IF SpeechConfirmed(_speech_frames + 1)
            THEN /\ _is_recording' = TRUE
                 /\ _silence_frames' = 0
                 /\ audio_buffer' = DequeAppend(<<>>, frame.id)
                 \* request_interrupt, then the on_speech_start submit
                 /\ interrupt_requested' = (RequestsInterrupt \/ interrupt_requested)
                 /\ emitted' = (IF RequestsInterrupt THEN {"on_interrupt"} ELSE {})
                                   \cup {"on_speech_start"}
            ELSE /\ UNCHANGED <<_is_recording, _silence_frames, audio_buffer,
                                interrupt_requested>>
                 /\ emitted' = {}
         /\ UNCHANGED submitted
    ELSE /\ _speech_frames' = DecaySpeechFrames(_speech_frames)
         /\ UNCHANGED <<_is_recording, _silence_frames, audio_buffer,
                        interrupt_requested, submitted>>
         /\ emitted' = {}

\* mutant: the cap test looks at the buffer as it was before the silence
\* finish
BufferBeforeFinish(buf, ended) == buf

\* the buffer the cap test of _process_frame finds: the _finish_recording
\* called for the silence count has cleared it
BufferAtCapTest(buf, ended) == IF ended THEN <<>> ELSE buf

\* _finish_recording: the copies it hands to the executor for a buffer
FinishRecording(buf) == IF FinishSubmits(buf) THEN <<buf>> ELSE <<>>

\* _process_frame, "else" branch (recording), with _finish_recording
CollectAudio(is_speech) ==
    LET buf == DequeAppend(audio_buffer, frame.id)
        sil == IF is_speech THEN 0 ELSE _silence_frames + 1
        ended == ~is_speech /\ SpeechEnded(sil)
        atcap == BufferAtCapTest(buf, ended)
        capped == BufferFull(atcap)
        copies == (IF ended THEN FinishRecording(buf) ELSE <<>>)
                      \o (IF capped THEN FinishRecording(atcap) ELSE <<>>)
    IN  IF ended \/ capped
        THEN /\ _is_recording' = FALSE
             /\ _speech_frames' = 0
             /\ _silence_frames' = 0
             /\ audio_buffer' = <<>>
             /\ submitted' = submitted \o copies
             /\ emitted' = IF copies # <<>> THEN {"transcribe"} ELSE {}
             /\ UNCHANGED interrupt_requested
        ELSE /\ audio_buffer' = buf
             /\ _silence_frames' = sil
             /\ UNCHANGED <<_is_recording, _speech_frames, interrupt_requested,
                            submitted>>
             /\ emitted' = {}

\* STSEngine._process_frame, under _vad_lock
ProcessFrame ==
    /\ pc = "process"
    /\ pc' = "read"
    /\ last_energy' = frame.energy
    /\ IF ~is_listening \/ InCooldown
       THEN /\ ForceIdle
            /\ lastClass' = "skipped"
            /\ lastEcho' = FALSE
            /\ speechRun' = 0
            /\ silenceRun' = 0
            /\ UNCHANGED <<_noise_floor_ema, _noise_floor_initialized,
                           _tts_energy_ema, _tts_energy_initialized>>
       ELSE LET idle == ~is_speaking /\ ~_is_recording
                barge == IsBargeInSpeech(frame.energy, frame.threshold)
                is_speech == IF is_speaking THEN barge.speech
                             ELSE Milli(frame.energy) > frame.threshold
                \* the frame's energy equals the TTS baseline tracked so far
                echo == /\ is_speaking
                        /\ _tts_energy_initialized
                        /\ Milli(frame.energy) = _tts_energy_ema
            IN  /\ _noise_floor_ema' = IF idle THEN NextNoiseFloor(frame.energy)
                                       ELSE _noise_floor_ema
                /\ _noise_floor_initialized' = (idle \/ _noise_floor_initialized)
                /\ _tts_energy_ema' = IF is_speaking THEN barge.ema ELSE _tts_energy_ema
                /\ _tts_energy_initialized' = IF is_speaking THEN barge.init
                                              ELSE _tts_energy_initialized
                /\ lastClass' = IF is_speech THEN "speech" ELSE "silence"
                /\ lastEcho' = echo
                /\ speechRun' = IF is_speech THEN speechRun + 1 ELSE 0
                /\ silenceRun' = IF is_speech THEN 0 ELSE silenceRun + 1
                /\ IF is_speaking /\ ~is_speech
                   THEN ForceIdle
                   ELSE IF ~_is_recording
                        THEN WaitForSpeech(is_speech)
                        ELSE CollectAudio(is_speech)
    /\ UNCHANGED <<is_speaking, tts_audio_playing, is_listening, _tts_started_at,
                   _ignore_until, _total_frames, SPEECH_START_FRAMES,
                   SILENCE_END_FRAMES, frame, now, scenario, script>>

\* --------------------------------------------- the playback side, at rest
\* CronoSTSOrchestrator._interrupt_cooldown_sec, in ms
INTERRUPT_COOLDOWN_MS == 1200

Threads == 1..MaxPlaybacks

\* streaming_tts at import and the orchestrator after __init__(ui)
StreamingTtsInit ==
    /\ _stop_event = FALSE
    /\ _is_playing = FALSE
    /\ _playback_lock = 0
    /\ playback = [t \in Threads |-> "unborn"]
    /\ _tts_active = FALSE
    /\ _last_interrupt_at = 0
    /\ requests = <<>>

\* the debounce state after CronoSTSOrchestrator.__init__
DebounceInit ==
    /\ _voice_buffer_parts = <<>>
    /\ _voice_debounce_task = 0
    /\ tasks = <<>>
    /\ forwarded = <<>>
    /\ heard = <<>>

\* nothing done since the stop flag was set: reads begun, reads returned,
\* frames classified, frames classified whose read began after the flag was
\* set, utterances dispatched from those, and joins given up
NoLateFrames ==
    [began |-> 0, returned |-> 0, classified |-> 0, late |-> 0,
     dispatched |-> 0, abandoned |-> 0]

\* ThreadPoolExecutor(max_workers=3) with nothing run yet
ExecutorIdle == transcriptions = <<>> /\ delivered = <<>>

\* TaskOrchestrator with no request taken up yet
PipelineIdle == pipeline = [phase |-> "idle", request |-> 0] /\ handled = <<>>

\* CronoSTSOrchestrator.__init__: nobody is heard speaking
VoiceIdle == _voice_active = FALSE /\ speech_starts = 0

\* threading.Lock() after construction, and a UI thread with no call to make
LockIdle == _vad_lock = "free" /\ ui_call = "none"

\* STSEngine.__init__: _audio_thread is the only capture thread there can be
NoStaleThread == stale_thread = [at |-> "None", closed |-> FALSE] /\ stream_closed = FALSE

\* an engine after start(), its stream open and its capture loop in the body
Capturing ==
    /\ running = TRUE
    /\ sts_stop_event = FALSE
    /\ _audio_thread = "reading"
    /\ caller = "idle"
    /\ sinceStop = NoLateFrames
    /\ ExecutorIdle
    /\ PipelineIdle
    /\ VoiceIdle
    /\ LockIdle
    /\ NoStaleThread

\* the default debounce configuration, in ticks of the debounce clock
DefaultDebounce ==
    /\ _debounce_window = StdWindowTicks
    /\ _debounce_short_window = ShortWindowTicks
    /\ _debounce_max_parts = DEFAULT_DEBOUNCE_MAX_PARTS
    /\ DebounceInit

\* an orchestrator built without a ui that never speaks and hears nothing
NoPlayback == StreamingTtsInit /\ ui = "None" /\ DefaultDebounce /\ Capturing

\* ------------------------------------------------------------ scripted runs
\* a scenario names the inputs of a scripted run; the free-running engine
\* specification has none
NoScenario ==
    [kind |-> "free", lead |-> 0, speech |-> 0, silence |-> 0,
     floor |-> 0, baseline |-> 0, echoes |-> 0]

\* n frames of one energy, and a set_speaking call, as script items
Frames(energy, n) == [i \in 1..n |-> [op |-> "frame", energy |-> energy, on |-> FALSE]]
Speak(on) == <<[op |-> "speak", energy |-> 0, on |-> on]>>

\* the capture loop reads the next scripted frame
ScriptedRead ==
    /\ script # <<>>
    /\ Head(script).op = "frame"
    /\ ReadFrame(Head(script).energy)
    /\ script' = Tail(script)
    /\ UNCHANGED coVars

\* the playback thread makes the next scripted set_speaking call, between frames
ScriptedNotify ==
    /\ script # <<>>
    /\ Head(script).op = "speak"
    /\ pc = "read"
    /\ SetSpeaking(Head(script).on)
    /\ script' = Tail(script)
    /\ UNCHANGED coVars

\* construction with the default configuration (no CRONO_* overrides)
DefaultEngineInit ==
    /\ EngineInit
    /\ SPEECH_START_FRAMES = DEFAULT_SPEECH_START_FRAMES
    /\ SILENCE_END_FRAMES = DEFAULT_SILENCE_END_FRAMES

\* --- a normal turn: `lead` quiet frames, `speech` loud frames, `silence`
\* quiet frames, with no TTS
TurnSpeechFrames == DEFAULT_SPEECH_START_FRAMES + 10

TurnScenarios ==
    {[kind |-> "turn", lead |-> k, speech |-> s, silence |-> DEFAULT_SILENCE_END_FRAMES,
      floor |-> 0, baseline |-> 0, echoes |-> 0] :
        k \in 0..MaxLeadFrames, s \in DEFAULT_SPEECH_START_FRAMES..TurnSpeechFrames}

TurnScript(sc) ==
    Frames(QuietEnergy, sc.lead) \o Frames(LoudEnergy, sc.speech)
        \o Frames(QuietEnergy, sc.silence)

TurnInit ==
    /\ DefaultEngineInit
    /\ scenario \in TurnScenarios
    /\ script = TurnScript(scenario)
    /\ NoPlayback

TurnNext == ScriptedRead \/ (ProcessFrame /\ UNCHANGED coVars)

SpecTurn == TurnInit /\ [][TurnNext]_vars

\* --- echo, then a jump: one idle frame of energy `floor` sets the noise
\* floor, TTS starts, the microphone hears `baseline` through the guard window
\* and for `echoes` more frames, then one frame of 2 * baseline + 300
GuardFrames == BARGE_IN_GUARD_MS \div FRAME_DURATION_MS + 1

JumpEnergy(baseline) == 2 * baseline + 300

NoiseFloorSamples == {0, QuietEnergy, SILENCE_THRESHOLD, 400, LoudEnergy}

BaselineSamples == {0, 50, 75, 76, QuietEnergy, 300, 870, 871, LoudEnergy, 3000}

BargeInScenarios ==
    {[kind |-> "barge", lead |-> 0, speech |-> 0, silence |-> 0,
      floor |-> f, baseline |-> b, echoes |-> k] :
        f \in NoiseFloorSamples, b \in BaselineSamples, k \in 0..MaxEchoFrames}

BargeInScript(sc) ==
    Frames(sc.floor, 1) \o Speak(TRUE) \o Frames(sc.baseline, GuardFrames + sc.echoes)
        \o Frames(JumpEnergy(sc.baseline), 1)

BargeInInit ==
    /\ DefaultEngineInit
    /\ scenario \in BargeInScenarios
    /\ script = BargeInScript(scenario)
    /\ NoPlayback

BargeInNext == ScriptedRead \/ ScriptedNotify \/ (ProcessFrame /\ UNCHANGED coVars)

SpecBargeIn == BargeInInit /\ [][BargeInNext]_vars

\* --- a long utterance: `lead` quiet frames, then loud frames only, enough
\* of them to fill the buffer and `extra` more
LongSpeechFrames == DEFAULT_SPEECH_START_FRAMES - 1 + MAX_RECORDING_FRAMES

LongScenarios ==
    {[kind |-> "long", lead |-> k, speech |-> LongSpeechFrames + x, silence |-> 0,
      floor |-> 0, baseline |-> 0, echoes |-> 0] :
        k \in 0..MaxLeadFrames, x \in 0..MaxLeadFrames}

LongScript(sc) == Frames(QuietEnergy, sc.lead) \o Frames(LoudEnergy, sc.speech)

LongInit ==
    /\ DefaultEngineInit
    /\ scenario \in LongScenarios
    /\ script = LongScript(scenario)
    /\ NoPlayback

LongNext == ScriptedRead \/ (ProcessFrame /\ UNCHANGED coVars)

SpecLong == LongInit /\ [][LongNext]_vars

\* --- an utterance that goes quiet as its buffer fills: `lead` quiet frames,
\* loud frames, then DEFAULT_SILENCE_END_FRAMES quiet ones, the last of which
\* is appended just before, exactly when, or just after the buffer is full
CapSpeechFrames ==
    DEFAULT_SPEECH_START_FRAMES - 1 + MAX_RECORDING_FRAMES - DEFAULT_SILENCE_END_FRAMES

CapScenarios ==
    {[kind |-> "cap", lead |-> k, speech |-> CapSpeechFrames - 1 + x,
      silence |-> DEFAULT_SILENCE_END_FRAMES, floor |-> 0, baseline |-> 0,
      echoes |-> 0] :
        k \in 1..MaxLeadFrames, x \in 0..MaxLeadFrames}

CapInit ==
    /\ DefaultEngineInit
    /\ scenario \in CapScenarios
    /\ script = TurnScript(scenario)
    /\ NoPlayback

CapNext == ScriptedRead \/ (ProcessFrame /\ UNCHANGED coVars)

SpecCap == CapInit /\ [][CapNext]_vars

\* --- constant silence: a fresh engine (lead = 0), or one whose noise floor
\* was set by one earlier idle frame of energy `prior`, is fed `frames`
\* frames of one energy below the static threshold
ConstantEnergies == {0, QuietEnergy, SILENCE_THRESHOLD - 1}
PriorEnergies == {0, (SILENCE_THRESHOLD * NOISE_FLOOR_GATE_PCT) \div 100, LoudEnergy}

FloorScenarios ==
    {[kind |-> "floor", lead |-> k, prior |-> p, energy |-> c,
      frames |-> FloorRunFrames] :
        k \in 0..1, p \in PriorEnergies, c \in ConstantEnergies}

FloorScript(sc) == Frames(sc.prior, sc.lead) \o Frames(sc.energy, sc.frames)

FloorInit ==
    /\ DefaultEngineInit
    /\ scenario \in FloorScenarios
    /\ script = FloorScript(scenario)
    /\ NoPlayback

FloorNext == ScriptedRead \/ (ProcessFrame /\ UNCHANGED coVars)

SpecFloor == FloorInit /\ [][FloorNext]_vars

\* ------------------------------------------------- the engine specification
\* the capture loop reads a frame from the microphone
AudioLoopRead ==
    /\ _total_frames < MaxFrames
    /\ \E energy \in {QuietEnergy, LoudEnergy} : ReadFrame(energy)
    /\ UNCHANGED <<script, coVars>>

\* a playback thread reports that TTS started or stopped
TtsNotifies ==
    /\ \E speaking \in BOOLEAN : SetSpeaking(speaking)
    /\ UNCHANGED <<script, coVars>>

\* push-to-talk, standby or snooze toggles the microphone
ListeningToggles ==
    /\ \E listening \in BOOLEAN : SetListening(listening)
    /\ UNCHANGED <<script, coVars>>

Init ==
    /\ EngineInit
    /\ SPEECH_START_FRAMES \in 1..MaxStartFrames
    /\ SILENCE_END_FRAMES \in 1..MaxEndFrames
    /\ scenario = NoScenario
    /\ script = <<>>
    /\ NoPlayback

Next ==
    \/ AudioLoopRead
    \/ ProcessFrame /\ UNCHANGED coVars
    \/ TtsNotifies
    \/ ListeningToggles

Spec == Init /\ [][Next]_vars

\* --- the engine with the default configuration and no TTS: long enough a
\* run for a recording to be confirmed and ended by silence
DefaultRunFrames ==
    MaxLeadFrames + DEFAULT_SPEECH_START_FRAMES + DEFAULT_SILENCE_END_FRAMES

DefaultAudioLoopRead ==
    /\ _total_frames < DefaultRunFrames
    /\ \E energy \in {QuietEnergy, LoudEnergy} : ReadFrame(energy)
    /\ UNCHANGED <<script, coVars>>

DefaultInit ==
    /\ DefaultEngineInit
    /\ scenario = NoScenario
    /\ script = <<>>
    /\ NoPlayback

DefaultNext ==
    \/ DefaultAudioLoopRead
    \/ ProcessFrame /\ UNCHANGED coVars
    \/ ListeningToggles

SpecDefault == DefaultInit /\ [][DefaultNext]_vars

\* --- the engine with the default configuration, TTS notifications and
\* listening toggles
SpecDuplex == DefaultInit /\ [][Next]_vars

\* ------------------------------------------------- the engine's life cycle
ThreadAlive == _audio_thread \in {"setup", "test", "enter", "reading", "holding"}

\* start(): refused while running is set; the caller of this model starts
\* the engine again only once the previous capture thread has gone
Start ==
    /\ caller = "idle"
    /\ ~running
    /\ ~ThreadAlive
    /\ running' = TRUE
    /\ sts_stop_event' = FALSE
    /\ _audio_thread' = "setup"
    /\ sinceStop' = NoLateFrames
    /\ UNCHANGED <<engineVars, scenario, script, ttsVars, debounceVars, sttVars, voiceVars, lockVars, restartVars, pipeVars, caller>>

\* _audio_loop: sd.InputStream(...) opens
StreamOpens ==
    /\ _audio_thread = "setup"
    /\ _audio_thread' = "test"
    /\ UNCHANGED <<engineVars, scenario, script, ttsVars, debounceVars, sttVars, voiceVars, lockVars, restartVars, pipeVars, running,
                   sts_stop_event, caller, sinceStop>>

\* _audio_loop: the device setup or sd.InputStream(...) raises; the outer
\* except logs the devices, finally clears _audio_stream, the thread ends
StreamFails ==
    /\ _audio_thread = "setup"
    /\ _audio_thread' = "failed"
    /\ UNCHANGED <<engineVars, scenario, script, ttsVars, debounceVars, sttVars, voiceVars, lockVars, restartVars, pipeVars, running,
                   sts_stop_event, caller, sinceStop>>

\* mutant: the loop condition never looks at the stop flag
LoopIgnoresStop == TRUE

\* "while self.running and not self._stop_event.is_set()"
LoopContinues == running /\ ~sts_stop_event

LoopTest ==
    /\ _audio_thread = "test"
    /\ _audio_thread' = IF LoopContinues THEN "enter" ELSE "exited"
    /\ UNCHANGED <<engineVars, scenario, script, ttsVars, debounceVars, sttVars, voiceVars, lockVars, restartVars, pipeVars, running,
                   sts_stop_event, caller, sinceStop>>

\* the loop body calls stream.read, which blocks for the frame
ReadBegins ==
    /\ _audio_thread = "enter"
    /\ _audio_thread' = "reading"
    /\ sinceStop' = IF sts_stop_event
                    THEN [sinceStop EXCEPT !.began = @ + 1]
                    ELSE sinceStop
    /\ UNCHANGED <<engineVars, scenario, script, ttsVars, debounceVars, sttVars, voiceVars, lockVars, restartVars, pipeVars, running,
                   sts_stop_event, caller>>

\* stream.read returns; energy and threshold are computed
ReadReturns ==
    /\ _audio_thread = "reading"
    /\ _total_frames < MaxFrames
    /\ \E energy \in {QuietEnergy, LoudEnergy} : ReadFrame(energy)
    /\ _audio_thread' = "holding"
    /\ sinceStop' = IF sts_stop_event
                    THEN [sinceStop EXCEPT !.returned = @ + 1]
                    ELSE sinceStop
    /\ UNCHANGED <<script, ttsVars, debounceVars, sttVars, voiceVars, lockVars, restartVars, pipeVars, running, sts_stop_event, caller>>

\* _process_frame on the frame held, then back to the loop condition
LoopProcess ==
    /\ _audio_thread = "holding"
    /\ ProcessFrame
    /\ _audio_thread' = "test"
    /\ sinceStop' =
          IF sts_stop_event
          THEN [sinceStop EXCEPT
                  !.classified = @ + 1,
                  !.late = @ + sinceStop.began,
                  !.dispatched = @ + (IF sinceStop.began > 0
                                      THEN Len(submitted') - Len(submitted)
                                      ELSE 0)]
          ELSE sinceStop
    /\ UNCHANGED <<ttsVars, debounceVars, sttVars, voiceVars, lockVars, restartVars, pipeVars, running, sts_stop_event, caller>>

\* stop() on a running engine: clear running, set the stop event, then join
StopBegins ==
    /\ caller = "idle"
    /\ running
    /\ running' = FALSE
    /\ sts_stop_event' = TRUE
    /\ caller' = "joining"
    /\ UNCHANGED <<engineVars, scenario, script, ttsVars, debounceVars, sttVars, voiceVars, lockVars, restartVars, pipeVars,
                   _audio_thread, sinceStop>>

\* join(timeout=5) returns, the thread gone or the 5 s over; stop() closes
\* the stream and returns
StopReturns ==
    /\ caller = "joining"
    /\ caller' = "idle"
    /\ sinceStop' = IF ThreadAlive
                    THEN [sinceStop EXCEPT !.abandoned = 1]
                    ELSE sinceStop
    /\ UNCHANGED <<engineVars, scenario, script, ttsVars, debounceVars, sttVars, voiceVars, lockVars, restartVars, pipeVars, running,
                   sts_stop_event, _audio_thread>>

\* construction: not running, no thread
LifeInit ==
    /\ EngineInit
    /\ SPEECH_START_FRAMES \in 1..MaxStartFrames
    /\ SILENCE_END_FRAMES \in 1..MaxEndFrames
    /\ scenario = NoScenario
    /\ script = <<>>
    /\ StreamingTtsInit /\ ui = "None" /\ DefaultDebounce
    /\ running = FALSE
    /\ sts_stop_event = FALSE
    /\ _audio_thread = "None"
    /\ caller = "idle"
    /\ sinceStop = NoLateFrames
    /\ ExecutorIdle
    /\ PipelineIdle
    /\ VoiceIdle
    /\ LockIdle
    /\ NoStaleThread

LifeNext ==
    \/ Start
    \/ StreamOpens
    \/ StreamFails
    \/ LoopTest
    \/ ReadBegins
    \/ ReadReturns
    \/ LoopProcess
    \/ StopBegins
    \/ StopReturns

SpecLife == LifeInit /\ [][LifeNext]_vars

\* ----------------------------------------- start() after stop() gave up
\* start() as the code has it: refused only while running is set.  The thread
\* object it replaces in self._audio_thread, when stop() gave up on it and it
\* is still alive, keeps running _audio_loop on the same engine
InLoop(at) == at \in {"test", "enter", "reading", "holding"}

Alive(at) == at = "setup" \/ InLoop(at)

RestartStart ==
    /\ caller = "idle"
    /\ ~running
    /\ ~Alive(stale_thread.at)
    /\ running' = TRUE
    /\ sts_stop_event' = FALSE
    /\ _audio_thread' = "setup"
    /\ stale_thread' = IF ThreadAlive
                       THEN [at |-> _audio_thread, closed |-> stream_closed]
                       ELSE stale_thread
    /\ stream_closed' = FALSE
    /\ sinceStop' = NoLateFrames
    /\ UNCHANGED <<engineVars, scenario, script, ttsVars, debounceVars, sttVars,
                   voiceVars, lockVars, pipeVars, caller>>

\* join(timeout=5) returns, the thread gone or the 5 s over; stop() then
\* closes self._audio_stream, which the thread has set once its stream is open
RestartStopReturns ==
    /\ caller = "joining"
    /\ ~(ThreadAlive /\ Alive(stale_thread.at))
    /\ caller' = "idle"
    /\ stream_closed' = InLoop(_audio_thread)
    /\ sinceStop' = IF ThreadAlive
                    THEN [sinceStop EXCEPT !.abandoned = 1]
                    ELSE sinceStop
    /\ UNCHANGED <<engineVars, scenario, script, ttsVars, debounceVars, sttVars,
                   voiceVars, lockVars, pipeVars, running, sts_stop_event,
                   _audio_thread, stale_thread>>

\* stream.read returns a frame of an open stream
RestartReadReturns ==
    /\ ~stream_closed
    /\ ReadReturns

\* stream.read on the stream stop() has closed raises; the loop's except
\* prints the error and continues with the loop condition
ReadRaises ==
    /\ stream_closed
    /\ _audio_thread = "reading"
    /\ _audio_thread' = "test"
    /\ UNCHANGED <<engineVars, scenario, script, ttsVars, debounceVars, sttVars,
                   voiceVars, lockVars, pipeVars, running, sts_stop_event, caller,
                   sinceStop, restartVars>>

\* the replaced thread runs the same _audio_loop
StaleMoves(from, to) ==
    /\ stale_thread.at = from
    /\ stale_thread' = [stale_thread EXCEPT !.at = to]
    /\ UNCHANGED <<ttsVars, debounceVars, lifeVars, sttVars, voiceVars, lockVars,
                   pipeVars, stream_closed>>

StaleStreamOpens ==
    /\ StaleMoves("setup", "test")
    /\ UNCHANGED <<engineVars, scenario, script>>

StaleStreamFails ==
    /\ StaleMoves("setup", "failed")
    /\ UNCHANGED <<engineVars, scenario, script>>

StaleLoopTest ==
    /\ StaleMoves("test", IF LoopContinues THEN "enter" ELSE "exited")
    /\ UNCHANGED <<engineVars, scenario, script>>

StaleReadBegins ==
    /\ StaleMoves("enter", "reading")
    /\ UNCHANGED <<engineVars, scenario, script>>

StaleReadReturns ==
    /\ ~stale_thread.closed
    /\ _total_frames < MaxFrames
    /\ \E energy \in {QuietEnergy, LoudEnergy} : ReadFrame(energy)
    /\ StaleMoves("reading", "holding")
    /\ UNCHANGED script

StaleReadRaises ==
    /\ stale_thread.closed
    /\ StaleMoves("reading", "test")
    /\ UNCHANGED <<engineVars, scenario, script>>

StaleLoopProcess ==
    /\ ProcessFrame
    /\ StaleMoves("holding", "test")

RestartInit == LifeInit

RestartNext ==
    \/ RestartStart
    \/ StreamOpens
    \/ StreamFails
    \/ LoopTest
    \/ ReadBegins
    \/ RestartReadReturns
    \/ ReadRaises
    \/ LoopProcess
    \/ StopBegins
    \/ RestartStopReturns
    \/ StaleStreamOpens
    \/ StaleStreamFails
    \/ StaleLoopTest
    \/ StaleReadBegins
    \/ StaleReadReturns
    \/ StaleReadRaises
    \/ StaleLoopProcess

SpecRestart == RestartInit /\ [][RestartNext]_vars

\* ------------------------------------------- streaming TTS and its callbacks
\* "if ui and hasattr(ui, 'start_speaking')": CronoUI defines start_speaking
\* and stop_speaking (both return at once) and is truthy
UiHasSpeakingHooks == ui = "CronoUI"

\* streaming_tts.stop_speaking
StopSpeaking ==
    /\ _stop_event' = TRUE
    /\ _is_playing' = FALSE

\* _on_tts_start / _on_tts_stop, the callbacks registered with set_callbacks
OnTtsStart == _tts_active' = TRUE /\ SetSpeaking(TRUE)
OnTtsStop == _tts_active' = FALSE /\ SetSpeaking(FALSE)

\* _speak -> streaming_speak(text, self.ui): stop what is playing, then start
\* a _playback_thread
StreamingSpeak ==
    /\ \E t \in Threads :
        /\ playback[t] = "unborn"
        /\ \A u \in Threads : u < t => playback[u] # "unborn"
        /\ playback' = [playback EXCEPT ![t] = "spawned"]
    /\ StopSpeaking
    /\ UNCHANGED <<engineVars, scenario, script, _playback_lock, ui, _tts_active,
                   _last_interrupt_at, requests, debounceVars, lifeVars, sttVars, voiceVars, lockVars, restartVars>>

\* _playback_thread enters "with _playback_lock", marks playback started and
\* notifies: the ui when it has start_speaking, else the registered callback
PlaybackBegin(t) ==
    /\ playback[t] = "spawned"
    /\ _playback_lock = 0
    /\ _playback_lock' = t
    /\ _stop_event' = FALSE
    /\ _is_playing' = TRUE
    /\ playback' = [playback EXCEPT ![t] = "playing"]
    /\ IF UiHasSpeakingHooks
       THEN UNCHANGED <<engineVars, scenario, _tts_active>>
       ELSE OnTtsStart
    /\ UNCHANGED <<script, ui, _last_interrupt_at, requests, debounceVars,
                   lifeVars, sttVars, voiceVars, lockVars, restartVars, pipeVars>>

\* the audio ends, or the stop event cuts it off: the "finally" clause of
\* _playback_thread notifies the same way and the lock is released
PlaybackEnd(t) ==
    /\ playback[t] = "playing"
    /\ _is_playing' = FALSE
    /\ playback' = [playback EXCEPT ![t] = "finished"]
    /\ _playback_lock' = 0
    /\ IF UiHasSpeakingHooks
       THEN UNCHANGED <<engineVars, scenario, _tts_active>>
       ELSE OnTtsStop
    /\ UNCHANGED <<script, ui, _stop_event, _last_interrupt_at, requests,
                   debounceVars, lifeVars, sttVars, voiceVars, lockVars, restartVars, pipeVars>>

\* a _playback_thread is between its start and its "finally" clause
Playing == \E t \in Threads : playback[t] = "playing"

\* the request whose response is the latest: the one the pipeline is working
\* on, else the last one it ended
CurrentRequest == IF pipeline.phase = "idle" THEN Len(handled) ELSE pipeline.request

\* mutant: _on_interrupt without its cooldown
NeverInInterruptCooldown == FALSE

\* "now - self._last_interrupt_at < self._interrupt_cooldown_sec"
InInterruptCooldown == now - _last_interrupt_at < INTERRUPT_COOLDOWN_MS

\* _on_interrupt, called by request_interrupt on behalf of `from`
OnInterrupt(from) ==
    /\ requests' = Append(requests,
                          [from |-> from,
                           at |-> now,
                           during |-> CurrentRequest,
                           playing |-> Playing,
                           active |-> (_tts_active \/ is_speaking),
                           cooled |-> ~InInterruptCooldown,
                           stopped |-> (~InInterruptCooldown
                                           /\ (_tts_active \/ is_speaking))])
    /\ IF InInterruptCooldown
       THEN UNCHANGED <<_stop_event, _is_playing, _last_interrupt_at>>
       ELSE /\ _last_interrupt_at' = now
            /\ IF _tts_active \/ is_speaking
               THEN StopSpeaking
               ELSE UNCHANGED <<_stop_event, _is_playing>>
    /\ UNCHANGED <<_playback_lock, playback, ui, _tts_active>>

\* the capture thread processes its frame, callbacks included
CaptureProcess ==
    /\ ProcessFrame
    /\ IF "on_interrupt" \in emitted'
       THEN OnInterrupt("segmenter")
       ELSE UNCHANGED ttsVars
    /\ UNCHANGED <<debounceVars, lifeVars, sttVars, voiceVars, lockVars, restartVars, pipeVars>>

TtsInit ==
    /\ DefaultEngineInit
    /\ scenario = NoScenario
    /\ script = <<>>
    /\ StreamingTtsInit
    /\ ui \in {"None", "CronoUI"}
    /\ DefaultDebounce
    /\ Capturing

TtsNext ==
    \/ StreamingSpeak /\ UNCHANGED pipeVars
    \/ \E t \in Threads : PlaybackBegin(t)
    \/ \E t \in Threads : PlaybackEnd(t)
    \/ AudioLoopRead
    \/ CaptureProcess

SpecTTS == TtsInit /\ [][TtsNext]_vars

\* --- the same, run long enough for the segmenter to raise two interrupts
InterruptRunFrames == GuardFrames + 3 * DEFAULT_SPEECH_START_FRAMES

InterruptAudioLoopRead ==
    /\ _total_frames < InterruptRunFrames
    /\ \E energy \in {QuietEnergy, LoudEnergy} : ReadFrame(energy)
    /\ UNCHANGED <<script, coVars>>

InterruptInit == TtsInit /\ ui = "None"

InterruptNext ==
    \/ StreamingSpeak /\ UNCHANGED pipeVars
    \/ \E t \in Threads : PlaybackBegin(t)
    \/ \E t \in Threads : PlaybackEnd(t)
    \/ InterruptAudioLoopRead
    \/ CaptureProcess

SpecInterrupt == InterruptInit /\ [][InterruptNext]_vars

\* --- the TTS specification with a caller of the engine's public
\* request_interrupt
CallerRequests == Len(SelectSeq(requests, LAMBDA r : r.from = "caller"))

\* STSEngine.request_interrupt, called from outside _process_frame
RequestInterrupt ==
    /\ CallerRequests < MaxRequests
    /\ interrupt_requested' = TRUE
    /\ emitted' = {"on_interrupt"}
    /\ OnInterrupt("caller")
    /\ UNCHANGED <<is_speaking, tts_audio_playing, is_listening, audio_buffer,
                   _speech_frames, _silence_frames, _is_recording, _tts_energy_ema,
                   _tts_energy_initialized, _tts_started_at, _ignore_until,
                   _noise_floor_ema, _noise_floor_initialized, _total_frames,
                   last_energy, submitted, SPEECH_START_FRAMES, SILENCE_END_FRAMES,
                   pc, frame, now, lastClass, lastEcho, speechRun, silenceRun,
                   scenario, script, debounceVars, lifeVars, sttVars, voiceVars, lockVars, restartVars, pipeVars>>

RequestNext ==
    \/ StreamingSpeak /\ UNCHANGED pipeVars
    \/ \E t \in Threads : PlaybackBegin(t)
    \/ \E t \in Threads : PlaybackEnd(t)
    \/ AudioLoopRead
    \/ CaptureProcess
    \/ RequestInterrupt

SpecRequest == TtsInit /\ [][RequestNext]_vars

\* ------------------------------------------------ transcripts and debounce
\* a text is a tuple of one-character strings
Blank == " "

\* str.strip
RECURSIVE LStrip(_)
LStrip(s) == IF s # <<>> /\ Head(s) = Blank THEN LStrip(Tail(s)) ELSE s

RECURSIVE RStrip(_)
RStrip(s) ==
    IF s # <<>> /\ s[Len(s)] = Blank THEN RStrip(SubSeq(s, 1, Len(s) - 1)) ELSE s

Strip(s) == RStrip(LStrip(s))

\* str.lower, on the letters the transcripts use
Lower(s) == [i \in 1..Len(s) |-> IF s[i] = "O" THEN "o" ELSE s[i]]

\* len(text.split()): the number of maximal runs of non-blank characters
SplitCount(s) ==
    Cardinality({i \in 1..Len(s) : s[i] # Blank /\ (i = 1 \/ s[i - 1] = Blank)})

\* str.endswith
EndsWith(s, suffix) ==
    /\ Len(s) >= Len(suffix)
    /\ SubSeq(s, Len(s) - Len(suffix) + 1, Len(s)) = suffix

\* " ".join fed the parts in reverse
RECURSIVE JoinReversed(_)
JoinReversed(parts) ==
    IF parts = <<>> THEN <<>>
    ELSE IF Len(parts) = 1 THEN parts[1]
    ELSE JoinReversed(Tail(parts)) \o <<Blank>> \o parts[1]

\* " ".join(parts)
RECURSIVE Join(_)
Join(parts) ==
    IF parts = <<>> THEN <<>>
    ELSE IF Len(parts) = 1 THEN parts[1]
    ELSE parts[1] \o <<Blank>> \o Join(Tail(parts))

\* what the transcription service returns for the dispatched recordings
Transcripts ==
    { <<" ", "O", "i">>,
      <<"a", " ", "b", " ", "c", " ", "d">>,
      <<"a", " ", "b", " ", "c", " ", "d", ".", ".", ".">>,
      <<".", ".", ".">>,
      <<" ", "e", " ">> }

\* _transcribe_async: the text handed to on_speech_end, and when it is dropped
Transcribed(raw) == Lower(Strip(raw))
Hallucinations == {<<".", ".", ".">>, <<"b", "y", "e">>}

\* mutant: the gate of _transcribe_async lets every text through
RejectsNothing(text) == FALSE

\* "if text in hallucinations or len(text) < 2: return"
Rejected(text) == text \in Hallucinations \/ Len(text) < MIN_TRANSCRIPT_CHARS

\* the window _enqueue_voice_input computes for a fragment
\* (characters outside ASCII are written by their code points: the second
\* literal of the source is the three characters U+00E2 U+20AC U+00A6, the
\* bytes of the one-character ellipsis U+2026 read as cp1252)
Ellipsis == <<"U+2026">>
SourceEllipsisLiteral == <<"U+00E2", "U+20AC", "U+00A6">>
Trailing(text) ==
    EndsWith(text, <<".", ".", ".">>) \/ EndsWith(text, SourceEllipsisLiteral)
WindowFor(text) ==
    IF SplitCount(text) <= SHORT_FRAGMENT_TOKENS \/ Trailing(text)
    THEN _debounce_short_window
    ELSE _debounce_window

\* a cap that is never reached
CapNeverReached(parts) == FALSE

\* "len(self._voice_buffer_parts) >= self._debounce_max_parts"
CapReachedParts(parts) == Len(parts) >= _debounce_max_parts

\* the task the orchestrator refers to is still sleeping / is not done()
TaskSleeping ==
    _voice_debounce_task # 0 /\ tasks[_voice_debounce_task].state = "sleeping"
TaskNotDone ==
    _voice_debounce_task # 0
        /\ tasks[_voice_debounce_task].state \in {"sleeping", "flushing"}

\* _process_user_input(merged) is called
ProcessUserInput(merged, by) ==
    forwarded' = Append(forwarded, [text |-> merged, by |-> by])

\* mutant: the superseded timer is left to run
CancelIgnored(ts) == ts

\* self._voice_debounce_task.cancel() when it is not done
CancelDebounceTask(ts) ==
    IF TaskNotDone
    THEN [ts EXCEPT ![_voice_debounce_task] = [state |-> "cancelled", remaining |-> 0]]
    ELSE ts

\* _enqueue_voice_input, run on the event loop for a fragment handed over by
\* _on_user_speech_end
EnqueueVoiceInput(raw) ==
    LET text == Strip(raw)
        parts == Append(_voice_buffer_parts, text)
    IN  IF text = <<>>
        THEN UNCHANGED debounceVars
        ELSE /\ heard' = Append(heard, [text |-> text,
                                         pending |-> TaskSleeping,
                                         first |-> _voice_buffer_parts = <<>>,
                                         before |-> Len(forwarded)])
             /\ UNCHANGED <<_debounce_window, _debounce_short_window,
                            _debounce_max_parts>>
             /\ IF _debounce_window <= 0
                THEN /\ ProcessUserInput(text, "direct")
                     /\ UNCHANGED <<_voice_buffer_parts, _voice_debounce_task, tasks>>
                ELSE IF CapReachedParts(parts)
                THEN \* _flush_voice_buffer, inline
                     /\ ProcessUserInput(Strip(Join(parts)), "cap")
                     /\ _voice_buffer_parts' = <<>>
                     /\ UNCHANGED <<_voice_debounce_task, tasks>>
                ELSE /\ _voice_buffer_parts' = parts
                     /\ tasks' = Append(CancelDebounceTask(tasks),
                                        [state |-> "sleeping",
                                         remaining |-> WindowFor(text)])
                     /\ _voice_debounce_task' = Len(tasks) + 1
                     /\ UNCHANGED forwarded

\* a transcription completes and _on_user_speech_end hands its text to the
\* event loop (run_coroutine_threadsafe keeps the order of the handovers)
OnUserSpeechEnd ==
    /\ Len(heard) < MaxFragments
    /\ \E raw \in Transcripts :
        /\ ~Rejected(Transcribed(raw))
        /\ Strip(Transcribed(raw)) # <<>>
        /\ EnqueueVoiceInput(Transcribed(raw))
    /\ UNCHANGED <<engineVars, scenario, script, ttsVars, lifeVars, sttVars, voiceVars, lockVars, restartVars, pipeVars>>

\* one tick passes while a debounce task sleeps
Tick ==
    /\ \E i \in 1..Len(tasks) :
        /\ tasks[i].state = "sleeping"
        /\ tasks[i].remaining > 0
        /\ tasks' = [tasks EXCEPT ![i].remaining = @ - 1]
    /\ UNCHANGED <<engineVars, scenario, script, ttsVars, lifeVars, sttVars, voiceVars, lockVars, restartVars, pipeVars, _debounce_window,
                   _debounce_short_window, _debounce_max_parts,
                   _voice_buffer_parts, _voice_debounce_task, forwarded, heard>>

\* _debounce_voice_flush wakes from its sleep and runs _flush_voice_buffer
DebounceVoiceFlush(i) ==
    /\ tasks[i].state = "sleeping"
    /\ tasks[i].remaining = 0
    /\ IF _voice_buffer_parts = <<>>
       THEN /\ tasks' = [tasks EXCEPT ![i].state = "done"]
            /\ UNCHANGED <<_voice_buffer_parts, forwarded>>
       ELSE /\ ProcessUserInput(Strip(Join(_voice_buffer_parts)), "timer")
            /\ _voice_buffer_parts' = <<>>
            /\ tasks' = [tasks EXCEPT ![i].state = "flushing"]
    /\ UNCHANGED <<engineVars, scenario, script, ttsVars, lifeVars, sttVars, voiceVars, lockVars, restartVars, pipeVars, _debounce_window,
                   _debounce_short_window, _debounce_max_parts,
                   _voice_debounce_task, heard>>

\* the _process_user_input awaited by a timer's flush returns
FlushReturns(i) ==
    /\ tasks[i].state = "flushing"
    /\ tasks' = [tasks EXCEPT ![i].state = "done"]
    /\ UNCHANGED <<engineVars, scenario, script, ttsVars, lifeVars, sttVars, voiceVars, lockVars, restartVars, pipeVars, _debounce_window,
                   _debounce_short_window, _debounce_max_parts,
                   _voice_buffer_parts, _voice_debounce_task, forwarded, heard>>

DebounceSpecInit ==
    /\ DefaultEngineInit
    /\ scenario = NoScenario
    /\ script = <<>>
    /\ StreamingTtsInit
    /\ ui = "None"
    /\ _debounce_window \in {0, StdWindowTicks}
    /\ _debounce_short_window = ShortWindowTicks
    /\ _debounce_max_parts \in {MinMaxParts, DEFAULT_DEBOUNCE_MAX_PARTS}
    /\ DebounceInit
    /\ Capturing

DebounceNext ==
    \/ OnUserSpeechEnd
    \/ Tick
    \/ \E i \in 1..Len(tasks) : DebounceVoiceFlush(i)
    \/ \E i \in 1..Len(tasks) : FlushReturns(i)

SpecDebounce == DebounceSpecInit /\ [][DebounceNext]_vars

\* --- the coalescer fed fragments that differ in length and in their ending
WindowTranscripts ==
    { <<"a", " ", "b", " ", "c">>,
      <<"a", " ", "b", " ", "c", " ", "d">>,
      <<"a", " ", "b", " ", "c", " ", "d", ".", ".", ".">>,
      <<"a", " ", "b", " ", "c", " ", "d">> \o Ellipsis }

WindowSpeechEnd ==
    /\ Len(heard) < MaxFragments
    /\ \E raw \in WindowTranscripts :
        /\ ~Rejected(Transcribed(raw))
        /\ EnqueueVoiceInput(Transcribed(raw))
    /\ UNCHANGED <<engineVars, scenario, script, ttsVars, lifeVars, sttVars, voiceVars,
                   lockVars, restartVars, pipeVars>>

WindowNext ==
    \/ WindowSpeechEnd
    \/ Tick
    \/ \E i \in 1..Len(tasks) : DebounceVoiceFlush(i)
    \/ \E i \in 1..Len(tasks) : FlushReturns(i)

SpecWindow == DebounceSpecInit /\ [][WindowNext]_vars

\* ------------------------------------------------ the transcription worker
\* how a run of _transcribe_async can go: no Groq client, the provider call
\* raises, or it returns a text
ProviderOutcomes ==
    {[kind |-> k, raw |-> <<>>] : k \in {"no_client", "raises"}}
        \cup {[kind |-> "text", raw |-> r] : r \in Transcripts}

\* the executor runs the _transcribe_async submitted for utterance i
TranscribeAsync(i) ==
    /\ i \in 1..Len(submitted)
    /\ i \notin DOMAIN transcriptions
    /\ \E out \in ProviderOutcomes :
        LET text == Transcribed(out.raw)
        IN  /\ transcriptions' =
                  [j \in DOMAIN transcriptions \cup {i} |->
                      IF j = i THEN out ELSE transcriptions[j]]
            /\ delivered' =
                  IF out.kind = "text" /\ ~Rejected(text)
                  THEN Append(delivered, [utterance |-> i, text |-> text])
                  ELSE delivered
    /\ UNCHANGED <<engineVars, scenario, script, ttsVars, debounceVars, lifeVars,
                   pipeVars>>

\* frames for two utterances of the shortest length that is dispatched
SttRunFrames == 2 * (MIN_BUFFER_FRAMES + 1) + 1

SttAudioLoopRead ==
    /\ _total_frames < SttRunFrames
    /\ \E energy \in {QuietEnergy, LoudEnergy} : ReadFrame(energy)
    /\ UNCHANGED <<script, coVars>>

SttNext ==
    \/ SttAudioLoopRead
    \/ ProcessFrame /\ UNCHANGED coVars
    \/ \E i \in 1..Len(submitted) : TranscribeAsync(i) /\ UNCHANGED <<voiceVars, lockVars, restartVars>>

SpecStt == Init /\ [][SttNext]_vars

\* ------------------------------------------- the voice-active indicator
\* _process_frame with the orchestrator's callbacks registered: on
\* confirmation "self._executor.submit(self.on_speech_start)"
VoiceCaptureProcess ==
    /\ ProcessFrame
    /\ speech_starts' = IF "on_speech_start" \in emitted'
                        THEN speech_starts + 1
                        ELSE speech_starts
    /\ UNCHANGED <<_voice_active, ttsVars, debounceVars, lifeVars, sttVars, pipeVars,
                   lockVars, restartVars>>

\* a worker runs _on_user_speech_start: nothing happens in standby
OnUserSpeechStart ==
    /\ speech_starts > 0
    /\ speech_starts' = speech_starts - 1
    /\ \E standby \in BOOLEAN :
          _voice_active' = IF standby THEN _voice_active ELSE TRUE
    /\ UNCHANGED <<engineVars, scenario, script, ttsVars, debounceVars, lifeVars,
                   sttVars, pipeVars, lockVars, restartVars>>

\* a worker runs _transcribe_async; _on_user_speech_end, when it is called,
\* clears the indicator
VoiceTranscribeAsync(i) ==
    /\ TranscribeAsync(i)
    /\ _voice_active' = IF delivered' # delivered THEN FALSE ELSE _voice_active
    /\ UNCHANGED <<speech_starts, lockVars, restartVars>>

VoiceNext ==
    \/ SttAudioLoopRead
    \/ VoiceCaptureProcess
    \/ OnUserSpeechStart
    \/ \E i \in 1..Len(submitted) : VoiceTranscribeAsync(i)

SpecVoice == Init /\ [][VoiceNext]_vars

\* ------------------------------------------------------ the intent pipeline
\* the last request_interrupt was made while this request was the current one
LastRaisedDuring == IF requests = <<>> THEN 0 ELSE requests[Len(requests)].during

\* execute_pipeline ends for the request in hand
PipelineEnds(request, outcome) ==
    /\ handled' = Append(handled, [request |-> request, outcome |-> outcome,
                                   raised |-> LastRaisedDuring])
    /\ pipeline' = [phase |-> "idle", request |-> 0]

EngineButFlag ==
    <<is_speaking, tts_audio_playing, is_listening, audio_buffer, _speech_frames,
      _silence_frames, _is_recording, _tts_energy_ema, _tts_energy_initialized,
      _tts_started_at, _ignore_until, _noise_floor_ema, _noise_floor_initialized,
      _total_frames, last_energy, submitted, SPEECH_START_FRAMES,
      SILENCE_END_FRAMES, pc, frame, now, emitted, lastClass, lastEcho,
      speechRun, silenceRun>>

\* _process_user_input takes _processing_lock for the next call made and
\* reaches execute_pipeline: _preprocess, then _validate, which drops the
\* request and clears the flag when interrupt_requested is set
PipelineValidate ==
    /\ pipeline.phase = "idle"
    /\ Len(handled) < Len(forwarded)
    /\ IF interrupt_requested
       THEN /\ interrupt_requested' = FALSE
            /\ PipelineEnds(Len(handled) + 1, "dropped by _validate")
       ELSE /\ pipeline' = [phase |-> "llm", request |-> Len(handled) + 1]
            /\ UNCHANGED <<interrupt_requested, handled>>
    /\ UNCHANGED <<EngineButFlag, scenario, script, ttsVars, debounceVars,
                   lifeVars, sttVars, voiceVars, lockVars, restartVars>>

\* _process_with_llm: get_llm_output returns from its thread; the request is
\* dropped when the flag was set meanwhile or when there is no output
PipelineLlmReturns ==
    /\ pipeline.phase = "llm"
    /\ IF interrupt_requested
       THEN /\ interrupt_requested' = FALSE
            /\ PipelineEnds(pipeline.request, "dropped after the LLM call")
       ELSE /\ UNCHANGED interrupt_requested
            /\ \/ PipelineEnds(pipeline.request, "no output")
               \/ /\ pipeline' = [pipeline EXCEPT !.phase = "actions"]
                  /\ UNCHANGED handled
    /\ UNCHANGED <<EngineButFlag, scenario, script, ttsVars, debounceVars,
                   lifeVars, sttVars, voiceVars, lockVars, restartVars>>

\* _execute_actions: a plan is abandoned at its first step when the flag is
\* set (_execute_plan_steps), otherwise the response is spoken with _speak
PipelineActs ==
    /\ pipeline.phase = "actions"
    /\ \E plan \in BOOLEAN :
        IF plan /\ interrupt_requested
        THEN /\ interrupt_requested' = FALSE
             /\ PipelineEnds(pipeline.request, "plan dropped")
             /\ UNCHANGED <<EngineButFlag, scenario, script, ttsVars,
                            debounceVars, lifeVars, sttVars, voiceVars, lockVars, restartVars>>
        ELSE /\ StreamingSpeak
             /\ PipelineEnds(pipeline.request, "answered")

\* an utterance is transcribed and handed to the coalescer
UserSpeaks ==
    /\ Len(heard) < MaxUtterances
    /\ OnUserSpeechEnd

\* quiet frames for the guard window and the TTS baseline, then loud frames
\* that confirm a barge-in
PipelineScenario ==
    [kind |-> "pipeline", lead |-> GuardFrames + 2,
     speech |-> DEFAULT_SPEECH_START_FRAMES, silence |-> 0,
     floor |-> 0, baseline |-> 0, echoes |-> 0]

PipelineInit ==
    /\ DefaultEngineInit
    /\ scenario = PipelineScenario
    /\ script = Frames(QuietEnergy, scenario.lead) \o Frames(LoudEnergy, scenario.speech)
    /\ NoPlayback

PipelineNext ==
    \/ ScriptedRead
    \/ CaptureProcess
    \/ \E t \in Threads : PlaybackBegin(t)
    \/ \E t \in Threads : PlaybackEnd(t)
    \/ UserSpeaks
    \/ Tick
    \/ \E i \in 1..Len(tasks) : DebounceVoiceFlush(i)
    \/ \E i \in 1..Len(tasks) : FlushReturns(i)
    \/ PipelineValidate
    \/ PipelineLlmReturns
    \/ PipelineActs

SpecPipeline == PipelineInit /\ [][PipelineNext]_vars

\* ---------------------------------------------------------------------------
\* The engine lock.  _process_frame runs "with self._vad_lock" and calls
\* request_interrupt -> on_interrupt inside it; set_speaking and set_listening
\* take the same lock from the playback thread and from the UI thread.
\* ---------------------------------------------------------------------------

\* a stop_speaking that waited for the playback thread to end
StopSpeakingJoins == ~Playing

\* stop_speaking sets the stop event, clears _is_playing and calls sd.stop();
\* it takes no lock and waits for no thread, so it returns in every state
StopSpeakingReturns == TRUE

\* the blocking stream.read of _audio_loop, made outside the lock
LockRead ==
    /\ _vad_lock = "free"
    /\ ScriptedRead

\* _process_frame enters "with self._vad_lock"
CaptureAcquire ==
    /\ pc = "process"
    /\ _vad_lock = "free"
    /\ _vad_lock' = "capture"
    /\ UNCHANGED <<engineVars, scenario, script, ui_call, ttsVars, debounceVars,
                   lifeVars, sttVars, pipeVars, voiceVars, restartVars>>

\* the body of _process_frame; when it calls request_interrupt the lock stays
\* held for the callback, else it is released on leaving the "with" block
CaptureLocked ==
    /\ _vad_lock = "capture"
    /\ ProcessFrame
    /\ _vad_lock' = IF "on_interrupt" \in emitted' THEN "callback" ELSE "free"
    /\ UNCHANGED <<ui_call, ttsVars, debounceVars, lifeVars, sttVars, pipeVars,
                   voiceVars, restartVars>>

\* on_interrupt = _on_interrupt, run by the capture thread inside the lock;
\* the lock is released when it returns
CaptureCallback ==
    /\ _vad_lock = "callback"
    /\ (~InInterruptCooldown /\ (_tts_active \/ is_speaking)) => StopSpeakingReturns
    /\ OnInterrupt("segmenter")
    /\ _vad_lock' = "free"
    /\ UNCHANGED <<engineVars, scenario, script, ui_call, debounceVars, lifeVars,
                   sttVars, pipeVars, voiceVars, restartVars>>

\* _playback_thread: its start and stop notifications call set_speaking,
\* which waits for the engine lock
LockPlaybackBegin(t) ==
    /\ UiHasSpeakingHooks \/ _vad_lock = "free"
    /\ PlaybackBegin(t)

LockPlaybackEnd(t) ==
    /\ UiHasSpeakingHooks \/ _vad_lock = "free"
    /\ PlaybackEnd(t)

\* the UI thread reaches _apply_listening_mode
UiCalls ==
    /\ ui_call = "none"
    /\ ui_call' \in {"on", "off"}
    /\ UNCHANGED <<engineVars, scenario, script, _vad_lock, ttsVars, debounceVars,
                   lifeVars, sttVars, pipeVars, voiceVars, restartVars>>

\* set_listening obtains the lock, writes and releases it
UiSetListening ==
    /\ ui_call \in {"on", "off"}
    /\ _vad_lock = "free"
    /\ SetListening(ui_call = "on")
    /\ ui_call' = "done"
    /\ UNCHANGED <<script, _vad_lock, ttsVars, debounceVars, lifeVars, sttVars,
                   pipeVars, voiceVars, restartVars>>

\* one utterance is spoken: _speak -> streaming_speak starts the first
\* playback thread
LockStreamingSpeak ==
    /\ playback[1] = "unborn"
    /\ StreamingSpeak
    /\ UNCHANGED pipeVars

LockInit == PipelineInit

CaptureStep ==
    \/ LockRead
    \/ CaptureAcquire
    \/ CaptureLocked
    \/ CaptureCallback

LockNext ==
    \/ CaptureStep
    \/ LockStreamingSpeak
    \/ \E t \in Threads : LockPlaybackBegin(t)
    \/ \E t \in Threads : LockPlaybackEnd(t)
    \/ UiCalls
    \/ UiSetListening

SpecLock == LockInit /\ [][LockNext]_vars

\* Scheduling: the capture thread always runs its next step; between two
\* frames it blocks in stream.read for a frame's duration with the lock free,
\* so a thread waiting for the lock, or for _playback_lock, gets it
LockFairness ==
    /\ WF_vars(CaptureStep)
    /\ \A t \in Threads : SF_vars(LockPlaybackBegin(t))
    /\ \A t \in Threads : SF_vars(LockPlaybackEnd(t))
    /\ SF_vars(UiSetListening)

SpecLockLive == SpecLock /\ LockFairness


\* ------------------------------------------------------------------- claims
Min(a, b) == IF a <= b THEN a ELSE b

\* the last step was a frame on which the segmenter entered RECORDING
EnteredRecording == "on_speech_start" \in emitted

\* C2 as stated: the segmenter enters RECORDING only on a frame that completes
\* a run of at least N = SPEECH_START_FRAMES consecutive speech-classified
\* frames, for every configured N.
C2_EntryNeedsNConsecutive ==
    EnteredRecording => (lastClass = "speech" /\ speechRun >= SPEECH_START_FRAMES)

\* C2 amended: the segmenter enters RECORDING only on a speech-classified
\* frame that completes a run of at least min(N, 2) consecutive
\* speech-classified frames; this is N for N <= 2 (the default), and for
\* N >= 3 a non-speech frame only decrements the counter, it does not reset it.
C2_EntryNeedsMin2Consecutive ==
    EnteredRecording =>
        /\ lastClass = "speech"
        /\ speechRun >= Min(SPEECH_START_FRAMES, 2)
        /\ _speech_frames = SPEECH_START_FRAMES

\* C2 witness: with the default N = 2, RECORDING entered on the second of two
\* consecutive speech frames that followed a non-speech frame
C2_Witness ==
    /\ EnteredRecording
    /\ SPEECH_START_FRAMES = DEFAULT_SPEECH_START_FRAMES
    /\ speechRun = SPEECH_START_FRAMES
    /\ _total_frames > SPEECH_START_FRAMES

\* a step of the capture thread that processes a frame while RECORDING and
\* leaves RECORDING
FrameEndsRecording ==
    pc = "process" /\ pc' = "read" /\ _is_recording /\ ~_is_recording'

\* the buffer reaches the cap with the frame being processed
CapReached == Len(audio_buffer) + 1 >= MAX_RECORDING_FRAMES

\* C3 as stated: with or without TTS, a frame ends a recording only after at
\* least M = SILENCE_END_FRAMES consecutive silence-classified frames or at
\* the max-length cap.
C3_ExitNeedsMSilence ==
    [][FrameEndsRecording =>
          \/ (lastClass' = "silence" /\ silenceRun' >= SILENCE_END_FRAMES)
          \/ CapReached]_vars

\* C3 amended: a frame ends a recording only (a) after at least M consecutive
\* silence-classified frames with TTS inactive, (b) at the max-length cap,
\* (c) when it is processed while TTS is active and is not barge-in speech, or
\* (d) when it is processed inside the post-TTS cooldown or with listening
\* disabled; in (c) and (d) one frame ends the recording and nothing is
\* dispatched.
C3_ExitRules ==
    [][FrameEndsRecording =>
          \/ /\ ~is_speaking
             /\ lastClass' = "silence"
             /\ silenceRun' >= SILENCE_END_FRAMES
             /\ _silence_frames + 1 = silenceRun'
          \/ CapReached
          \/ (is_speaking /\ lastClass' = "silence" /\ submitted' = submitted)
          \/ (lastClass' = "skipped" /\ submitted' = submitted)]_vars

\* C3 witness: a recording just ended by M >= 2 consecutive silence frames
\* and was dispatched
C3_Witness ==
    /\ "transcribe" \in emitted
    /\ SILENCE_END_FRAMES >= 2
    /\ silenceRun = SILENCE_END_FRAMES
    /\ ~_is_recording

\* C4: audio_buffer is non-empty if and only if _is_recording, in every state
\* in which the engine lock is free.
C4_BufferExclusivity == (Len(audio_buffer) > 0) <=> _is_recording

\* C4 witness: a recording is in progress while TTS plays and listening was
\* toggled, holding several frames
C4_Witness == _is_recording /\ Len(audio_buffer) >= 2 /\ is_speaking

\* C5: when a recording is confirmed while TTS is active the interrupt is
\* raised (flag set, on_interrupt invoked) in that same frame step, in which
\* nothing is submitted; the step that submits an utterance raises none.
C5_InterruptAtConfirmation ==
    /\ (EnteredRecording /\ is_speaking) =>
           (interrupt_requested /\ "on_interrupt" \in emitted
               /\ "transcribe" \notin emitted /\ _is_recording)
    /\ "transcribe" \in emitted => "on_interrupt" \notin emitted

\* C5 witness: a barge-in has just been confirmed
C5_Witness ==
    /\ EnteredRecording
    /\ is_speaking
    /\ "on_interrupt" \in emitted
    /\ SPEECH_START_FRAMES = DEFAULT_SPEECH_START_FRAMES

\* a scripted run has been fed and processed to its end
ScriptDone == script = <<>> /\ pc = "read"

\* the normal turn of the scenario: 2 + 10 speech frames and 16 silence
\* frames on an engine that has heard at least one quiet frame
NormalTurnDone ==
    /\ scenario.kind = "turn"
    /\ scenario.lead >= 1
    /\ scenario.speech = TurnSpeechFrames
    /\ ScriptDone

\* C6 as stated: the normal turn produces exactly one dispatch and the
\* dispatched buffer holds 12 + 16 = 28 frames, from the first frame of the
\* confirming run through the last silence frame.
C6_TurnDispatches28 ==
    NormalTurnDone =>
        /\ Len(submitted) = 1
        /\ Len(submitted[1]) = TurnSpeechFrames + DEFAULT_SILENCE_END_FRAMES

\* C6 amended: every frame of a turn is classified as scripted (loud frames
\* speech, quiet frames silence), and the normal turn produces exactly one
\* dispatch whose buffer holds 11 + 16 = 27 frames: the frame that confirms
\* the run (the second speech frame) through the last silence frame; the
\* first frame of the confirming run is not buffered.
C6_TurnDispatches27 ==
    /\ (scenario.kind = "turn" /\ scenario.lead >= 1 /\ pc = "read" /\ _total_frames >= 1)
          => (lastClass = "speech" <=> last_energy = LoudEnergy)
    /\ NormalTurnDone =>
          /\ Len(submitted) = 1
          /\ submitted[1] =
                [i \in 1..(TurnSpeechFrames - 1 + DEFAULT_SILENCE_END_FRAMES) |->
                    scenario.lead + DEFAULT_SPEECH_START_FRAMES - 1 + i]
          /\ ~_is_recording /\ audio_buffer = <<>>

\* C6 witness: the normal turn has run to its end and was dispatched
C6_Witness == NormalTurnDone /\ Len(submitted) = 1 /\ "transcribe" \in emitted

\* the jump frame of an echo-then-jump run has been processed
JumpDone == scenario.kind = "barge" /\ ScriptDone

\* the threshold _audio_loop passes for a frame read while TTS is active and
\* the noise floor is `floor`
SpeakingThreshold(floor) ==
    Max(Milli(SILENCE_THRESHOLD),
        (Milli(floor) * NOISE_FLOOR_MULTIPLIER_PCT) \div 100 + Milli(NOISE_FLOOR_MARGIN))
        + Milli(ECHO_THRESHOLD_BOOST)

\* C7 as stated: with TTS active and the guard window expired, for every
\* tracked baseline B >= 0 and every noise floor, a frame of energy 2*B + 300
\* is classified as barge-in speech.
C7_JumpAccepted == JumpDone => lastClass = "speech"

\* C7 amended: with TTS active, the guard window expired and the baseline
\* initialised to B, a frame of energy 2*B + 300 is classified as barge-in
\* speech if and only if 2*B + 300 exceeds the threshold passed in,
\* max(SILENCE_THRESHOLD, 1.8 * noise floor + 40) + 200, which is at least
\* 450: the baseline term 1.6 * ema + 200 never decides, the floor does.
C7_JumpAcceptedAboveFloor ==
    JumpDone =>
        /\ _tts_energy_initialized
        /\ is_speaking
        /\ last_energy = JumpEnergy(scenario.baseline)
        /\ lastClass = "speech" <=>
              Milli(JumpEnergy(scenario.baseline)) > SpeakingThreshold(scenario.floor)

\* C7 witness: after echo frames at the baseline, a jump was accepted
C7_Witness == JumpDone /\ lastClass = "speech" /\ scenario.echoes >= 1

\* C8: while TTS is active, a frame whose energy equals the tracked TTS
\* baseline is never classified as barge-in speech: it starts no recording
\* and raises no interrupt, whatever came before it.
C8_EchoRejected ==
    lastEcho =>
        /\ lastClass = "silence"
        /\ ~_is_recording
        /\ _speech_frames = 0
        /\ emitted = {}

\* C8 witness: TTS is active, the baseline is tracked and the last frame
\* processed was an echo of it
C8_Witness ==
    /\ lastEcho
    /\ is_speaking
    /\ _tts_energy_initialized
    /\ pc = "read"
    /\ Milli(last_energy) = _tts_energy_ema

\* ------------------------------------------------------------------ C1
\* C1: every playback started through _speak -> streaming_speak tells the
\* engine: while a playback thread is playing (between its start and its end
\* or stop) the engine's is_speaking flag is true, and once no playback is
\* in progress it is false again.
C1_SpeakingWhilePlaying == Playing <=> is_speaking

\* ------------------------------------------------------------- C9, C10
HeardTexts == [i \in 1..Len(heard) |-> heard[i].text]

\* the fragments j..n of h are a burst: fragment j found the pending list
\* empty, and each later one arrived while the timer started for the fragment
\* before it had not fired
Burst(h, j, n) ==
    /\ 1 <= j /\ j <= n /\ n <= Len(h)
    /\ h[j].first
    /\ \A i \in (j + 1)..n : h[i].pending

\* where part i starts in the parts joined by single blanks
RECURSIVE Offset(_, _)
Offset(ts, i) == IF i = 1 THEN 0 ELSE Offset(ts, i - 1) + Len(ts[i - 1]) + 1

\* u is the parts ts in order, with exactly one blank between neighbours
IsSpaceJoined(u, ts) ==
    /\ Len(u) = Offset(ts, Len(ts)) + Len(ts[Len(ts)])
    /\ \A i \in 1..Len(ts) :
        SubSeq(u, Offset(ts, i) + 1, Offset(ts, i) + Len(ts[i])) = ts[i]
    /\ \A i \in 1..(Len(ts) - 1) : u[Offset(ts, i) + Len(ts[i]) + 1] = Blank

\* the timer started for the latest fragment has fired
LastTimerFired ==
    _voice_debounce_task # 0
        /\ tasks[_voice_debounce_task].state \in {"flushing", "done"}

\* C9: debounce coalescing. With debouncing on, when the latest k fragments
\* (1 <= k < max_parts) are a burst, each having arrived before the timer of
\* the one before fired, _process_user_input is not called for them until the
\* last timer fires, and once it has fired it has been called exactly once
\* since the burst began, with the fragments of the burst joined by single
\* spaces in arrival order.
C9_Coalesced ==
    \A j \in 1..Len(heard) :
        (/\ _debounce_window > 0
         /\ Len(heard) - j + 1 < _debounce_max_parts
         /\ Burst(heard, j, Len(heard)))
        => IF LastTimerFired
           THEN /\ Len(forwarded) = heard[j].before + 1
                /\ forwarded[Len(forwarded)].by = "timer"
                /\ IsSpaceJoined(forwarded[Len(forwarded)].text,
                                 SubSeq(HeardTexts, j, Len(heard)))
           ELSE Len(forwarded) = heard[j].before

\* three different fragments in a burst came out as one utterance
C9_Witness ==
    /\ Burst(heard, 1, Len(heard))
    /\ HeardTexts = << <<"o", "i">>,
                       <<"a", " ", "b", " ", "c", " ", "d">>,
                       <<"a", " ", "b", " ", "c", " ", "d", ".", ".", ".">> >>
    /\ LastTimerFired
    /\ forwarded = << [text |-> <<"o", "i", " ", "a", " ", "b", " ", "c", " ", "d",
                                  " ", "a", " ", "b", " ", "c", " ", "d", ".", ".",
                                  ".">>,
                       by |-> "timer"] >>

\* this step is the arrival of a fragment
Arrival == Len(heard') = Len(heard) + 1

\* C10: debounce cap flush. With max_parts = 4 and fragments arriving faster
\* than the window closes, the step in which the 4th fragment of a burst
\* arrives forwards the merged utterance of exactly fragments 1-4 of the burst
\* (no timer is involved) and empties the pending list; the step in which the
\* 5th fragment arrives forwards nothing, leaves the pending list holding the
\* 5th fragment alone, and leaves exactly one sleeping timer, started with the
\* full window computed for the 5th fragment.
C10_CapFlush ==
    [][(/\ _debounce_window > 0
        /\ _debounce_max_parts = DEFAULT_DEBOUNCE_MAX_PARTS
        /\ Arrival)
       => /\ Burst(heard', Len(heard') - DEFAULT_DEBOUNCE_MAX_PARTS + 1, Len(heard'))
             => /\ Len(forwarded') = Len(forwarded) + 1
                /\ SubSeq(forwarded', 1, Len(forwarded)) = forwarded
                /\ forwarded'[Len(forwarded')].by = "cap"
                /\ IsSpaceJoined(forwarded'[Len(forwarded')].text,
                                 SubSeq(HeardTexts',
                                        Len(heard') - DEFAULT_DEBOUNCE_MAX_PARTS + 1,
                                        Len(heard')))
                /\ _voice_buffer_parts' = <<>>
          /\ Burst(heard, Len(heard) - DEFAULT_DEBOUNCE_MAX_PARTS + 1, Len(heard))
             => /\ forwarded' = forwarded
                /\ _voice_buffer_parts' = <<heard'[Len(heard')].text>>
                /\ \A i \in 1..Len(tasks') :
                       tasks'[i].state = "sleeping" => i = _voice_debounce_task'
                /\ tasks'[_voice_debounce_task'] =
                       [state |-> "sleeping",
                        remaining |-> WindowFor(heard'[Len(heard')].text)]
      ]_vars

\* the 5th fragment arrived while the timer of the 3rd was still sleeping and
\* now waits alone for its own timer
C10_Witness ==
    /\ _debounce_max_parts = DEFAULT_DEBOUNCE_MAX_PARTS
    /\ Len(heard) = DEFAULT_DEBOUNCE_MAX_PARTS + 1
    /\ Burst(heard, 1, DEFAULT_DEBOUNCE_MAX_PARTS)
    /\ heard[Len(heard)].pending
    /\ Len(forwarded) = 1
    /\ forwarded[1].by = "cap"
    /\ _voice_buffer_parts = <<heard[Len(heard)].text>>
    /\ tasks[_voice_debounce_task].state = "sleeping"
    /\ tasks[_voice_debounce_task - 1].state = "cancelled"

\* ------------------------------------------------------------------ C11
\* the frame that fills the buffer of a long utterance
CapFrame == scenario.lead + LongSpeechFrames

\* C11: max-length force-finish. In a long utterance heard after at least one
\* quiet frame (every frame from the first loud one on is classified speech,
\* so there is no silence frame after confirmation) nothing
\* is dispatched before the buffer holds MAX_RECORDING_FRAMES frames, and the
\* frame that fills it finalizes: the 500 frames from the confirming frame on
\* are dispatched and the segmenter is not recording, with an empty buffer
\* and both counters 0.
C11_CapForcesFinish ==
    (scenario.kind = "long" /\ scenario.lead >= 1 /\ pc = "read") =>
        /\ (_total_frames > scenario.lead /\ _total_frames <= CapFrame)
              => (lastClass = "speech" /\ speechRun = _total_frames - scenario.lead)
        /\ _total_frames < CapFrame => submitted = <<>>
        /\ _total_frames = CapFrame =>
              /\ submitted =
                    << [i \in 1..MAX_RECORDING_FRAMES |->
                            scenario.lead + DEFAULT_SPEECH_START_FRAMES - 1 + i] >>
              /\ "transcribe" \in emitted
              /\ ~_is_recording
              /\ audio_buffer = <<>>
              /\ _speech_frames = 0 /\ _silence_frames = 0

\* the buffer of a long utterance was filled by speech frames alone
C11_Witness ==
    /\ scenario.kind = "long"
    /\ pc = "read"
    /\ _total_frames = CapFrame
    /\ lastClass = "speech"
    /\ speechRun = LongSpeechFrames
    /\ Len(submitted) = 1

\* ------------------------------------------------------------------ C12
\* this frame step ran _finish_recording (the silence rule or the cap)
Finalizes ==
    /\ FrameEndsRecording
    /\ lastClass' # "skipped"
    /\ ~(is_speaking /\ lastClass' = "silence")

\* C12: micro-noise is dispatched. Under the default parameters every
\* recording that reaches _finish_recording holds more than 5 frames (at
\* least the confirming frame and M = 16 silence frames) and is submitted for
\* transcription: the discard branch is never taken.
C12_NeverDiscards ==
    [][Finalizes =>
          /\ "transcribe" \in emitted'
          /\ Len(submitted') = Len(submitted) + 1
          /\ submitted'[Len(submitted')] = Append(audio_buffer, frame.id)
          /\ Len(audio_buffer) + 1 > MIN_BUFFER_FRAMES
          /\ Len(audio_buffer) >= DEFAULT_SILENCE_END_FRAMES]_vars

\* a recording confirmed and followed at once by M silence frames was
\* dispatched: the confirming frame and the 16 silence frames
C12_Witness ==
    /\ "transcribe" \in emitted
    /\ Len(submitted) >= 1
    /\ Len(submitted[Len(submitted)]) = 1 + DEFAULT_SILENCE_END_FRAMES
    /\ silenceRun = DEFAULT_SILENCE_END_FRAMES

\* ------------------------------------------------------------- C13, C14
\* this step is an interrupt request reaching _on_interrupt
RequestArrives == Len(requests') = Len(requests) + 1

\* C13: an interrupt request that arrives when nothing is playing (neither
\* _tts_active nor engine.is_speaking) is a no-op: stop_speaking is not
\* called and no coordinator or engine state changes, the cooldown timestamp
\* _last_interrupt_at and the interrupt_requested flag included.
C13_IdleRequestIsNoOp ==
    [][(RequestArrives /\ ~(_tts_active \/ is_speaking)) =>
          /\ ~requests'[Len(requests')].stopped
          /\ _last_interrupt_at' = _last_interrupt_at
          /\ interrupt_requested' = interrupt_requested
          /\ UNCHANGED <<_stop_event, _is_playing, _playback_lock, playback,
                         _tts_active, is_speaking, is_listening, _is_recording,
                         audio_buffer, _speech_frames, _silence_frames>>]_vars

SegmenterRequests == {i \in 1..Len(requests) : requests[i].from = "segmenter"}

C15_FatalLeavesStopped == _audio_thread = "failed" => ~running

AtMostOneFrameAfterStop ==
    sts_stop_event =>
        /\ sinceStop.began <= 1
        /\ sinceStop.returned <= 1
        /\ sinceStop.classified <= 1
        /\ sinceStop.dispatched <= 1
        /\ sinceStop.classified = 1 => _audio_thread \in {"test", "exited"}

\* stop() returns with running false, the capture thread gone or given up on
StopReturnsStopped ==
    [][(caller = "joining" /\ caller' = "idle") =>
          /\ ~running'
          /\ sinceStop'.abandoned = 1 <=> ThreadAlive']_vars

StaleThreshold == pc = "process" /\ frame.threshold # GetEffectiveThreshold

\* set_speaking was called since the frame in hand was read (the clock moves
\* with the reads only)
SpeakingSetSinceRead ==
    \/ is_speaking /\ _tts_started_at = now
    \/ ~is_speaking /\ _ignore_until = now + BARGE_IN_COOLDOWN_MS

\* C16 as stated: no set_speaking call takes effect between the computation
\* of a frame's effective threshold and its classification, so the threshold
\* used always matches the speaking flag the classification sees.
C16_ThresholdMatchesFlag == ~StaleThreshold

\* C16 amended: the threshold is computed before the lock is taken, so it can
\* be stale, but only when set_speaking ran since the read; it is then off by
\* the echo boost, and with the default guard window and cooldown the frame
\* is not classified with it: it is skipped (cooldown after TTS stopped) or
\* rejected by the guard window (TTS just started), and the segmenter is
\* forced idle without any callback.
C16_StaleThresholdUnused ==
    [][(StaleThreshold /\ pc' = "read") =>
          /\ SpeakingSetSinceRead
          /\ frame.threshold - GetEffectiveThreshold
                \in {Milli(ECHO_THRESHOLD_BOOST), 0 - Milli(ECHO_THRESHOLD_BOOST)}
          /\ \/ ~is_speaking /\ lastClass' = "skipped"
             \/ is_speaking /\ lastClass' \in {"skipped", "silence"}
          /\ ~_is_recording'
          /\ _speech_frames' = 0
          /\ emitted' = {}
          /\ submitted' = submitted]_vars

\* a loud frame read while TTS was speaking was processed after TTS had
\* stopped, with the boosted threshold, and was skipped
C16_Witness ==
    /\ pc = "read"
    /\ frame.id = _total_frames
    /\ frame.energy = LoudEnergy
    /\ ~is_speaking
    /\ frame.threshold = GetEffectiveThreshold + Milli(ECHO_THRESHOLD_BOOST)
    /\ _ignore_until = now + BARGE_IN_COOLDOWN_MS
    /\ lastClass = "skipped"
    /\ last_energy = LoudEnergy

\* ------------------------------------------------------------------- C17
\* the debounce tasks that can still act
LiveTimers == {i \in 1..Len(tasks) : tasks[i].state \in {"sleeping", "flushing"}}

\* this step is a flush made by debounce task i
TimerFlushes(i) ==
    /\ tasks[i].state = "sleeping"
    /\ tasks'[i].state = "flushing"
    /\ Len(forwarded') = Len(forwarded) + 1
    /\ forwarded'[Len(forwarded')].by = "timer"

\* C17: once a newer fragment has cancelled the pending debounce timer, that
\* timer never flushes, even when its sleep was already over: a cancelled
\* task stays cancelled, every utterance forwarded by a timer is forwarded by
\* the one task the orchestrator still refers to, and a step that cancels a
\* task forwards nothing.
C17_CancelledNeverFlushes ==
    [][/\ \A i \in 1..Len(tasks) :
            tasks[i].state = "cancelled" =>
                tasks'[i].state = "cancelled" /\ ~TimerFlushes(i)
       /\ \A i \in 1..Len(tasks) :
            (tasks[i].state # "cancelled" /\ tasks'[i].state = "cancelled") =>
                forwarded' = forwarded /\ _voice_debounce_task' # i
       /\ \A i \in 1..Len(tasks) :
            TimerFlushes(i) => i = _voice_debounce_task /\ LiveTimers = {i}
       /\ (Len(forwarded') > Len(forwarded)
              /\ forwarded'[Len(forwarded')].by = "timer") =>
            \E i \in 1..Len(tasks) : TimerFlushes(i)]_vars

\* a fragment arrived while a timer was pending and cancelled it; its own
\* timer later forwarded both fragments in one utterance
C17_Witness ==
    /\ Len(heard) = 2
    /\ heard[2].pending
    /\ Len(tasks) = 2
    /\ tasks[1].state = "cancelled"
    /\ tasks[2].state = "flushing"
    /\ Len(forwarded) = 1
    /\ forwarded[1].by = "timer"
    /\ forwarded[1].text = Join(<<heard[1].text, heard[2].text>>)

\* ------------------------------------------------------------------- C19
Abs(x) == IF x >= 0 THEN x ELSE 0 - x

\* the distance the floor's arithmetic settles at, in thousandths of an
\* energy unit
FloorTolerance == 12

\* frames of the constant stream processed so far
ConstantFed == _total_frames - scenario.lead

FloorGap == Abs(_noise_floor_ema - Milli(scenario.energy))

\* under the constant stream the segmenter stays idle; a fresh engine's floor
\* is the energy fed from the first frame on, any other floor is within the
\* tolerance of it after FloorSettleFrames frames
SilenceKeepsIdle ==
    (pc = "read" /\ ConstantFed >= 1) =>
        /\ ~_is_recording
        /\ _speech_frames = 0
        /\ audio_buffer = <<>>
        /\ submitted = <<>>
        /\ lastClass = "silence"
        /\ _noise_floor_initialized
        /\ scenario.lead = 0 => FloorGap = 0
        /\ ConstantFed >= FloorSettleFrames => FloorGap <= FloorTolerance

\* every frame of the constant stream leaves (1 - alpha) of the floor's
\* distance to the energy fed, rounded up
FloorGapShrinks ==
    [][(pc = "process" /\ ConstantFed >= 1 /\ _noise_floor_initialized) =>
          FloorGap' <= ((100 - NOISE_FLOOR_EMA_ALPHA_PCT) * FloorGap) \div 100 + 1]_vars

\* C19: an idle, listening, non-speaking engine fed frames of one constant
\* energy c below the static silence threshold never starts recording, and
\* its noise floor converges to c: on a fresh engine it is c from the first
\* frame on, otherwise its distance to c shrinks by the EMA factor with every
\* frame and is within the arithmetic's precision after a bounded number of
\* frames.
C19_FloorConvergesUnderSilence == []SilenceKeepsIdle /\ FloorGapShrinks

\* an engine whose floor was set by a loud frame has been fed quiet frames
\* and its floor has come down to their energy
C19_Witness ==
    /\ pc = "read"
    /\ scenario.lead = 1
    /\ scenario.prior = LoudEnergy
    /\ scenario.energy = QuietEnergy
    /\ ConstantFed = FloorSettleFrames
    /\ _noise_floor_ema = Milli(QuietEnergy)
    /\ ~_is_recording

\* ------------------------------------------------------------------- C20
\* the calls of on_speech_end made for utterance i
CallsFor(i) == SelectSeq(delivered, LAMBDA d : d.utterance = i)

\* C20: on_speech_end is invoked at most once for each dispatched utterance,
\* and only for one whose transcription returned a text that, trimmed and
\* lower-cased, is outside the hallucination set and at least 2 characters
\* long; it is handed that trimmed lower-cased text. A run that failed (no
\* client, provider error) or was rejected has no call, then or later.
C20_TranscriptionGate ==
    /\ DOMAIN transcriptions \subseteq 1..Len(submitted)
    /\ \A i \in 1..Len(submitted) :
        /\ Len(CallsFor(i)) <= 1
        /\ i \notin DOMAIN transcriptions => CallsFor(i) = <<>>
        /\ i \in DOMAIN transcriptions =>
              LET out == transcriptions[i]
                  text == Lower(Strip(out.raw))
                  passes == /\ out.kind = "text"
                            /\ text \notin Hallucinations
                            /\ Len(text) >= MIN_TRANSCRIPT_CHARS
              IN  CallsFor(i) = IF passes
                                THEN <<[utterance |-> i, text |-> text]>>
                                ELSE <<>>

\* two utterances were dispatched; the provider failed on the first, whose
\* run ended after the second one's, and the second was delivered trimmed
\* and lower-cased
C20_Witness ==
    /\ Len(submitted) = 2
    /\ DOMAIN transcriptions = {1, 2}
    /\ transcriptions[1].kind = "raises"
    /\ transcriptions[2].raw = <<" ", "O", "i">>
    /\ delivered = <<[utterance |-> 2, text |-> <<"o", "i">>]>>

\* ------------------------------------------------------------------- C23
\* the recording in progress was confirmed by the frame that raised a
\* barge-in interrupt (the buffer starts with that frame, and the clock
\* moves with the reads only)
BargeInRecording ==
    /\ _is_recording
    /\ audio_buffer # <<>>
    /\ \E i \in 1..Len(requests) :
        /\ requests[i].from = "segmenter"
        /\ requests[i].at = Epoch + FRAME_DURATION_MS * audio_buffer[1]

\* C23: a recording confirmed as a barge-in is not lost when the interrupted
\* playback stops: every frame processed after set_speaking(False) while it
\* is in progress is added to it, or ends it with a dispatch to
\* transcription.
C23_BargeInRecordingSurvives ==
    [][(pc = "process" /\ pc' = "read" /\ BargeInRecording /\ ~is_speaking) =>
          \/ _is_recording' /\ audio_buffer' = DequeAppend(audio_buffer, frame.id)
          \/ Len(submitted') = Len(submitted) + 1]_vars

\* ------------------------------------------------------------------- C22
\* C22: once a timer flush has handed a merged utterance to
\* _process_user_input, the arrival of a later fragment does not cancel the
\* task that awaits its processing: the task stays in its flush until the
\* call returns.
C22_FlushNotCancelled ==
    [][\A i \in 1..Len(tasks) :
          tasks[i].state = "flushing" => tasks'[i].state \in {"flushing", "done"}]_vars

\* ------------------------------------------------------------------- C21
\* C21: an interrupt_requested flag set by a barge-in affects only the
\* response that was current when it was raised: no request is dropped by
\* one of the pipeline's interrupt checks because of a flag raised before
\* that request was taken up.
C21_FlagDropsOnlyItsResponse ==
    \A k \in 1..Len(handled) :
        handled[k].outcome \in {"dropped by _validate", "dropped after the LLM call",
                                "plan dropped"}
            => handled[k].raised = handled[k].request

\* ------------------------------------------------------------------- C24
\* C24: transcripts reach on_speech_end in utterance order: a call for an
\* utterance finalized earlier is never made after a call for one finalized
\* later.
C24_DeliveredInUtteranceOrder ==
    \A i, j \in 1..Len(delivered) :
        i < j => delivered[i].utterance < delivered[j].utterance

\* ------------------------------------------------------------------- C25
\* this step is _process_frame classifying a frame with TTS silent
ClassifiesIdleFrame ==
    pc = "process" /\ pc' = "read" /\ ~is_speaking /\ lastClass' # "skipped"

\* C25 as stated: the threshold a frame's energy is compared with already
\* reflects that frame's contribution to the noise floor.
C25_ThresholdAfterFloorUpdate ==
    [][ClassifiesIdleFrame =>
          (lastClass' = "speech" <=> Milli(frame.energy) > GetEffectiveThreshold')]_vars

\* C25 amended: the threshold is computed when the frame is read, from the
\* noise floor left by the frames before it; _process_frame then updates the
\* floor with the frame and compares the frame's energy with that earlier
\* threshold, so the frame's own contribution shows from the next frame on.
C25_ThresholdBeforeFloorUpdate ==
    [][/\ (pc = "read" /\ pc' = "process") => frame'.threshold = GetEffectiveThreshold
       /\ ClassifiesIdleFrame =>
            /\ lastClass' = "speech" <=> Milli(frame.energy) > frame.threshold
            /\ (~_is_recording /\ frame.threshold = GetEffectiveThreshold) =>
                  _noise_floor_ema' = NextNoiseFloor(frame.energy)]_vars

\* the first frame of a fresh engine was loud: it was compared with the
\* static threshold and counted as speech, although the threshold that
\* includes its contribution to the floor is above its energy
C25_Witness ==
    /\ pc = "read"
    /\ _total_frames = 1
    /\ frame.energy = LoudEnergy
    /\ frame.threshold = Milli(SILENCE_THRESHOLD)
    /\ lastClass = "speech"
    /\ _noise_floor_ema = Milli(LoudEnergy)
    /\ ~is_speaking
    /\ Milli(frame.energy) <= GetEffectiveThreshold

\* ------------------------------------------------------------------- C26
\* the segmenter is idle after this step
IdleAfterStep ==
    /\ ~_is_recording'
    /\ audio_buffer' = <<>>
    /\ _speech_frames' = 0
    /\ _silence_frames' = 0

\* nothing is handed to the executor and no callback fires in this step
NothingDispatched == submitted' = submitted /\ emitted' = {}

\* C26: a frame processed while TTS is active and not classified as barge-in
\* speech resets the segmenter in that step (not recording, empty buffer,
\* both counters 0) and dispatches nothing.
C26_EchoFrameResets ==
    [][(pc = "process" /\ pc' = "read" /\ is_speaking /\ lastClass' = "silence")
          => (IdleAfterStep /\ NothingDispatched)]_vars

\* a barge-in recording was confirmed one frame ago, when it raised its
\* interrupt; the next frame, processed before the playback thread reported
\* the stop, was no barge-in speech and dropped it
C26_Witness ==
    /\ pc = "read"
    /\ requests # <<>>
    /\ requests[Len(requests)].from = "segmenter"
    /\ now = requests[Len(requests)].at + FRAME_DURATION_MS
    /\ is_speaking
    /\ lastClass = "silence"
    /\ silenceRun = 1
    /\ ~_is_recording
    /\ audio_buffer = <<>>
    /\ submitted = <<>>

\* ------------------------------------------------------------------- C27
\* this step is _process_frame with listening disabled or inside the
\* cooldown that set_speaking(False) began
ProcessesMutedFrame ==
    /\ pc = "process"
    /\ pc' = "read"
    /\ ~is_listening \/ (_ignore_until # 0 /\ now < _ignore_until)

\* C27: a frame processed while listening is disabled or inside the post-TTS
\* cooldown forces the segmenter idle, dispatches nothing, fires no callback
\* and leaves the noise floor and the TTS baseline as they were; the cooldown
\* lasts 350 ms from set_speaking(False).
C27_MutedFrameForcesIdle ==
    [][/\ ProcessesMutedFrame =>
            /\ IdleAfterStep
            /\ NothingDispatched
            /\ UNCHANGED <<_noise_floor_ema, _noise_floor_initialized,
                           _tts_energy_ema, _tts_energy_initialized,
                           interrupt_requested>>
       /\ (is_speaking /\ ~is_speaking') =>
            _ignore_until' = now + BARGE_IN_COOLDOWN_MS]_vars

\* a loud frame was skipped inside the cooldown by an engine that listens and
\* had a noise floor
C27_Witness ==
    /\ pc = "read"
    /\ lastClass = "skipped"
    /\ is_listening
    /\ _ignore_until # 0
    /\ now < _ignore_until
    /\ frame.energy = LoudEnergy
    /\ _noise_floor_initialized
    /\ _noise_floor_ema < Milli(LoudEnergy)

\* ------------------------------------------------------------------- C28
\* this step is _process_frame less than the guard window after the last
\* set_speaking(True)
ProcessesGuardedFrame ==
    /\ pc = "process"
    /\ pc' = "read"
    /\ _tts_started_at # 0
    /\ now - _tts_started_at < BARGE_IN_GUARD_MS

\* C28: a frame processed within 250 ms after set_speaking(True) is never
\* classified as speech, whatever its energy, leaves the TTS baseline
\* uninitialised, starts no recording and raises no interrupt.
C28_GuardWindowRejects ==
    [][ProcessesGuardedFrame =>
          /\ lastClass' # "speech"
          /\ ~_tts_energy_initialized'
          /\ UNCHANGED <<_tts_energy_ema, interrupt_requested>>
          /\ IdleAfterStep
          /\ NothingDispatched]_vars

\* a frame louder than the boosted threshold was rejected inside the guard
\* window by an engine that listens and is out of any cooldown
C28_Witness ==
    /\ pc = "read"
    /\ is_speaking
    /\ is_listening
    /\ ~(_ignore_until # 0 /\ now < _ignore_until)
    /\ now - _tts_started_at < BARGE_IN_GUARD_MS
    /\ frame.energy = LoudEnergy
    /\ Milli(LoudEnergy) > GetEffectiveThreshold
    /\ frame.threshold = GetEffectiveThreshold
    /\ lastClass = "silence"
    /\ ~_tts_energy_initialized

\* ------------------------------------------------------------------- C29
\* the utterances handed to _process_user_input so far
ForwardedTexts == [k \in 1..Len(forwarded) |-> forwarded[k].text]

\* the fragments accepted so far are, in arrival order and once each, the
\* ones inside the utterances handed over followed by the pending ones
FragmentsAccountedFor ==
    Join(ForwardedTexts \o _voice_buffer_parts) = Join(HeardTexts)

\* an utterance handed over by a timer is processed to the end
ForwardedIsProcessed ==
    \A i \in 1..Len(tasks) :
        (tasks[i].state = "flushing" /\ tasks'[i].state # "flushing") =>
            (tasks'[i].state = "done" /\ Len(heard') = Len(heard))

\* C29: fragment conservation and order. Every accepted fragment reaches the
\* intent pipeline exactly once, inside one merged utterance, in arrival
\* order within and across utterances: the utterances handed over and the
\* pending list always hold the accepted fragments once each in arrival
\* order, and the processing of an utterance handed over is not given up.
C29_FragmentsConserved == []FragmentsAccountedFor /\ [][ForwardedIsProcessed]_vars

\* ------------------------------------------------------------------- C30
\* the debounce timers that have not fired yet
PendingTimers == {i \in 1..Len(tasks) : tasks[i].state = "sleeping"}

\* at most one timer is pending, and it is the one the orchestrator refers to
AtMostOnePendingTimer == PendingTimers \subseteq {_voice_debounce_task}

\* this step cancels the pending timer and starts one with the full window of
\* the fragment that arrives
RestartsTimer ==
    /\ Len(tasks') = Len(tasks) + 1
    /\ _voice_debounce_task' = Len(tasks')
    /\ tasks'[Len(tasks')] = [state |-> "sleeping",
                              remaining |-> WindowFor(heard'[Len(heard')].text)]
    /\ \A i \in PendingTimers : tasks'[i].state = "cancelled"

\* the fragment that arrives fills the pending list
FillsPendingList == Len(_voice_buffer_parts) + 1 >= _debounce_max_parts

\* a timer sleeps one tick at a time, and flushes only when its sleep is
\* over, it is the timer started for the latest fragment, and nothing was
\* forwarded since that fragment came
FlushAfterFullWindow ==
    /\ \A i \in PendingTimers :
          \/ tasks'[i] = tasks[i]
          \/ tasks'[i] = [tasks[i] EXCEPT !.remaining = @ - 1]
          \/ tasks'[i].state = "cancelled"
          \/ tasks[i].remaining = 0 /\ tasks'[i].state \in {"flushing", "done"}
    /\ \A i \in 1..Len(tasks) :
          TimerFlushes(i) =>
              /\ tasks[i].remaining = 0
              /\ i = Len(tasks)
              /\ i = _voice_debounce_task
              /\ heard' = heard
              /\ heard[Len(heard)].before = Len(forwarded)

\* C30 as stated: at most one timer is pending, every fragment that arrives
\* while a timer is pending cancels it and starts a new one, and a timer
\* flushes only after the full window of the latest fragment.
C30_EveryFragmentRestarts ==
    /\ []AtMostOnePendingTimer
    /\ [][/\ (Arrival /\ _debounce_window > 0 /\ PendingTimers # {}) => RestartsTimer
          /\ FlushAfterFullWindow]_vars

\* C30 amended: at most one timer is pending; a fragment that arrives with
\* debouncing on and leaves the pending list below max_parts cancels the
\* pending timer and starts one with the full window computed for it; a
\* fragment that fills the list is flushed with the list at once and neither
\* cancels the pending timer nor starts one; a timer flushes only when the
\* full window of the latest fragment has passed with no fragment since.
C30_DebounceRestarts ==
    /\ []AtMostOnePendingTimer
    /\ [][/\ (Arrival /\ _debounce_window > 0 /\ ~FillsPendingList) => RestartsTimer
          /\ (Arrival /\ _debounce_window > 0 /\ FillsPendingList) =>
                /\ tasks' = tasks
                /\ _voice_debounce_task' = _voice_debounce_task
                /\ Len(forwarded') = Len(forwarded) + 1
                /\ forwarded'[Len(forwarded')].by = "cap"
          /\ FlushAfterFullWindow]_vars

\* the fragment that filled the pending list was flushed with it and left
\* the timer of the fragment before it pending
C30_Witness ==
    /\ Len(heard) >= 2
    /\ heard[Len(heard)].pending
    /\ heard[Len(heard)].before = Len(forwarded) - 1
    /\ forwarded[Len(forwarded)].by = "cap"
    /\ _voice_buffer_parts = <<>>
    /\ PendingTimers = {_voice_debounce_task}

\* ------------------------------------------------------------------- C31
\* the frame that is read as the last of the quiet frames of a "cap" run
LastQuietFrame == scenario.lead + scenario.speech + scenario.silence

\* C31: a recording is handed to transcription at most once, and what was
\* handed over is never changed afterwards: a step hands over at most one
\* buffer, only in a step that ends a recording, the buffer handed over is
\* the recording with the frame just processed, and the earlier ones stay
\* as they were.
C31_DispatchedOnce ==
    [][/\ Len(submitted') <= Len(submitted) + 1
       /\ SubSeq(submitted', 1, Len(submitted)) = submitted
       /\ Len(submitted') > Len(submitted) =>
            /\ _is_recording
            /\ ~_is_recording'
            /\ audio_buffer' = <<>>
            /\ submitted'[Len(submitted')] = DequeAppend(audio_buffer, frame.id)]_vars

\* the quiet frame that completed the silence count also filled the buffer,
\* and the recording was handed over once
C31_Witness ==
    /\ scenario.kind = "cap"
    /\ scenario.speech = CapSpeechFrames
    /\ pc = "read"
    /\ _total_frames = LastQuietFrame
    /\ silenceRun = DEFAULT_SILENCE_END_FRAMES
    /\ Len(submitted) = 1
    /\ Len(submitted[1]) = MAX_RECORDING_FRAMES
    /\ ~_is_recording

\* ------------------------------------------------------------------- C32
\* the frames of a buffer are consecutive frames of the capture loop
Consecutive(buf) == \A i \in 1..(Len(buf) - 1) : buf[i + 1] = buf[i] + 1

\* the buffer and every buffer handed over are within the deque's maxlen and
\* gap-free
BuffersBoundedAndGapFree ==
    /\ Len(audio_buffer) <= MAX_RECORDING_FRAMES
    /\ Consecutive(audio_buffer)
    /\ \A k \in 1..Len(submitted) :
          /\ Len(submitted[k]) <= MAX_RECORDING_FRAMES
          /\ Consecutive(submitted[k])

\* a frame processed during a recording is added to the buffer and none is
\* dropped from its front: the buffer, or the one handed over, is the old
\* buffer with the frame at its end
NoFrameEvicted ==
    (pc = "process" /\ pc' = "read" /\ _is_recording) =>
        \/ audio_buffer' = Append(audio_buffer, frame.id)
        \/ /\ audio_buffer' = <<>>
           /\ Len(submitted') > Len(submitted) =>
                submitted'[Len(submitted')] = Append(audio_buffer, frame.id)

\* C32: the audio buffer never holds more than MAX_RECORDING_FRAMES frames
\* and no frame of a recording is evicted before it is finalized, so what is
\* dispatched is a gap-free run of consecutive frames.
C32_BufferBounded == []BuffersBoundedAndGapFree /\ [][NoFrameEvicted]_vars

\* the buffer filled one frame before the silence count was complete and was
\* handed over whole
C32_Witness ==
    /\ scenario.kind = "cap"
    /\ scenario.speech = CapSpeechFrames + 1
    /\ pc = "read"
    /\ _total_frames = LastQuietFrame - 1
    /\ silenceRun = DEFAULT_SILENCE_END_FRAMES - 1
    /\ Len(submitted) = 1
    /\ Len(submitted[1]) = MAX_RECORDING_FRAMES
    /\ submitted[1][1] = scenario.lead + DEFAULT_SPEECH_START_FRAMES
    /\ submitted[1][MAX_RECORDING_FRAMES] = _total_frames

\* ------------------------------------------------------------------- C33
\* this step changes the noise floor
NoiseFloorChanges ==
    \/ _noise_floor_ema' # _noise_floor_ema
    \/ _noise_floor_initialized' # _noise_floor_initialized

\* C33: the noise floor is changed only by a frame processed while TTS is not
\* active and nothing is being recorded, and once it is initialised a frame
\* whose energy is above 1.2 x SILENCE_THRESHOLD never changes it.
C33_NoiseFloorGated ==
    [][/\ NoiseFloorChanges =>
            /\ pc = "process"
            /\ pc' = "read"
            /\ ~is_speaking
            /\ ~_is_recording
       /\ (/\ pc = "process"
           /\ _noise_floor_initialized
           /\ frame.energy * 100 > SILENCE_THRESHOLD * NOISE_FLOOR_GATE_PCT) =>
              ~NoiseFloorChanges]_vars

\* an idle engine whose floor was set by a quiet frame heard a loud frame,
\* which left the floor where it was
C33_Witness ==
    /\ pc = "read"
    /\ _total_frames = 2
    /\ frame.energy = LoudEnergy
    /\ lastClass = "speech"
    /\ speechRun = 1
    /\ ~is_speaking
    /\ ~_is_recording
    /\ _noise_floor_initialized
    /\ _noise_floor_ema = Milli(QuietEnergy)

\* ------------------------------------------------------------------- C34
\* 1.2 x SILENCE_THRESHOLD, in thousandths
NoiseFloorGate == (Milli(SILENCE_THRESHOLD) * NOISE_FLOOR_GATE_PCT) \div 100

\* C34 as stated: the noise floor is at most 1.2 x SILENCE_THRESHOLD in every
\* state, so the threshold with TTS silent is at most
\* max(SILENCE_THRESHOLD, 1.2 * SILENCE_THRESHOLD * 1.8 + 40).
C34_NoiseFloorBelowGate ==
    /\ _noise_floor_ema <= NoiseFloorGate
    /\ ~is_speaking =>
          GetEffectiveThreshold <=
              Max(Milli(SILENCE_THRESHOLD),
                  (NoiseFloorGate * NOISE_FLOOR_MULTIPLIER_PCT) \div 100
                      + Milli(NOISE_FLOOR_MARGIN))

\* C34 amended: the first idle frame sets the noise floor to its own energy,
\* loud or not; from then on no frame raises the floor above the larger of
\* its current value and 1.2 x SILENCE_THRESHOLD. The floor, and with it the
\* threshold, is bounded by 1.2 x SILENCE_THRESHOLD only when the frame that
\* initialised it was that quiet.
C34_NoiseFloorBoundedAfterInit ==
    [][/\ (~_noise_floor_initialized /\ _noise_floor_initialized') =>
            _noise_floor_ema' = Milli(frame.energy)
       /\ _noise_floor_initialized =>
            /\ _noise_floor_initialized'
            /\ _noise_floor_ema' <= Max(_noise_floor_ema, NoiseFloorGate)]_vars

\* the first frame of a fresh engine was loud and became the noise floor; the
\* second, as loud, was below the threshold computed from that floor
C34_Witness ==
    /\ pc = "read"
    /\ _total_frames = 2
    /\ frame.energy = LoudEnergy
    /\ lastClass = "silence"
    /\ ~is_speaking
    /\ is_listening
    /\ _ignore_until = 0
    /\ _noise_floor_ema = Milli(LoudEnergy)
    /\ _noise_floor_ema > NoiseFloorGate

\* ------------------------------------------------------------------- C35
\* this step is a set_speaking call that can be seen in the engine's fields
SetSpeakingSeen ==
    is_speaking' # is_speaking \/ _tts_started_at' # _tts_started_at
        \/ _ignore_until' # _ignore_until

\* this step is _process_frame handing its frame to _is_barge_in_speech past
\* the guard window with no baseline yet
FirstFrameAfterGuard ==
    /\ pc = "process"
    /\ pc' = "read"
    /\ is_speaking
    /\ is_listening
    /\ ~(_ignore_until # 0 /\ now < _ignore_until)
    /\ ~(_tts_started_at # 0 /\ now - _tts_started_at < BARGE_IN_GUARD_MS)
    /\ ~_tts_energy_initialized

\* this step is the segmenter raising an interrupt
SegmenterInterrupts == pc = "process" /\ "on_interrupt" \in emitted'

\* C35: every set_speaking call leaves the TTS baseline uninitialised; the
\* first frame evaluated after the guard window becomes the baseline and is
\* not classified as barge-in speech whatever its energy; and the segmenter
\* raises no interrupt before SPEECH_START_FRAMES + 1 frames have been
\* evaluated after the guard window, the first of them GuardFrames frame
\* periods after set_speaking(True).
C35_FirstFrameSetsBaseline ==
    [][/\ SetSpeakingSeen => ~_tts_energy_initialized'
       /\ FirstFrameAfterGuard =>
            /\ lastClass' = "silence"
            /\ _tts_energy_initialized'
            /\ _tts_energy_ema' = Milli(frame.energy)
            /\ _speech_frames' = 0
            /\ ~_is_recording'
            /\ "on_interrupt" \notin emitted'
       /\ SegmenterInterrupts =>
            now - _tts_started_at >=
                (GuardFrames + SPEECH_START_FRAMES) * FRAME_DURATION_MS]_vars

\* an interrupt was raised on the earliest frame it can be: the first frame
\* after the guard window set the baseline and the next
\* SPEECH_START_FRAMES frames were barge-in speech
C35_Witness ==
    /\ pc = "read"
    /\ "on_interrupt" \in emitted
    /\ is_speaking
    /\ _is_recording
    /\ speechRun = SPEECH_START_FRAMES
    /\ now - _tts_started_at = (GuardFrames + SPEECH_START_FRAMES) * FRAME_DURATION_MS
    /\ requests # <<>>
    /\ requests[Len(requests)].at = now

\* ------------------------------------------------------------------- C36
\* nothing that was heard is still under way: no recording, no
\* on_speech_start call waiting for a worker, no transcription outstanding
NothingUnderWay ==
    /\ ~_is_recording
    /\ speech_starts = 0
    /\ DOMAIN transcriptions = 1..Len(submitted)

\* C36: the voice-active indicator always returns to false after an
\* on_speech_start, whatever happens to the recording: once the recording
\* has ended and every callback and transcription it caused has run,
\* _voice_active is false.
C36_VoiceActiveReturns == NothingUnderWay => ~_voice_active

\* ---------------------------------------------------------------------------
\* C37  No deadlock on the engine lock: while the capture thread holds the lock
\* and runs the interrupt callback, whatever the playback threads and the UI
\* do, every thread that needs the lock gets it (a started playback thread
\* finishes, a set_listening call returns), the capture thread leaves
\* _process_frame with the lock released, and every frame is processed.
\* ---------------------------------------------------------------------------
C37_PlaybackGetsLock ==
    \A t \in Threads : (playback[t] = "spawned") ~> (playback[t] = "finished")

C37_UiGetsLock == (ui_call \in {"on", "off"}) ~> (ui_call = "done")

C37_CaptureReleases == (_vad_lock # "free") ~> (_vad_lock = "free" /\ pc = "read")

C37_FramesProcessed == <>(script = <<>> /\ pc = "read" /\ _vad_lock = "free")

C37_NoLockDeadlock ==
    /\ C37_PlaybackGetsLock
    /\ C37_UiGetsLock
    /\ C37_CaptureReleases
    /\ C37_FramesProcessed

\* the capture thread is in the interrupt callback with the lock held while a
\* playback thread is playing and a set_listening call is waiting
C37_Witness ==
    /\ _vad_lock = "callback"
    /\ Playing
    /\ ui_call \in {"on", "off"}
    /\ ~InInterruptCooldown
    /\ _tts_active \/ is_speaking

\* ---------------------------------------------------------------------------
\* C38  At most one capture loop: whatever start() and stop() calls are made,
\* stop() giving up on its join included, no two threads are inside the
\* capture loop of one engine at once, and start() on a running engine
\* changes nothing.
\* ---------------------------------------------------------------------------
\* the thread start() replaced holds a frame read from its own open stream
\* and is about to run _process_frame, while the new thread is in its loop
TwoCaptureLoops ==
    /\ stale_thread.at = "holding"
    /\ ~stale_thread.closed
    /\ InLoop(_audio_thread)

C38_OneCaptureLoop == ~TwoCaptureLoops

\* start() on a running engine returns at once: while running is set, only
\* stop() changes the engine's thread
C38_StartRefusedWhileRunning ==
    [][running /\ _audio_thread' = "setup" => _audio_thread = "setup"]_vars

\* ---------------------------------------------------------------------------
\* C39  The debounce delay started when a fragment arrives is the extended
\* window if and only if that fragment has at most three words or ends with a
\* trailing-continuation marker (three full stops, or the ellipsis character),
\* and the standard window otherwise, whatever fragments are already pending.
\* ---------------------------------------------------------------------------
EndsWithMarker(text) == EndsWith(text, <<".", ".", ".">>) \/ EndsWith(text, Ellipsis)

WantsExtendedWindow(text) ==
    SplitCount(text) <= SHORT_FRAGMENT_TOKENS \/ EndsWithMarker(text)

StartsTimer == Arrival /\ Len(tasks') = Len(tasks) + 1

LastHeard == heard'[Len(heard')].text

LastTimer == tasks'[Len(tasks')]

C39_WindowByLastFragment ==
    [][StartsTimer =>
          /\ LastTimer.state = "sleeping"
          /\ LastTimer.remaining = IF WantsExtendedWindow(LastHeard)
                                   THEN _debounce_short_window
                                   ELSE _debounce_window]_vars

\* what the code does: the same with the markers as the source spells them
C39_WindowAsCoded ==
    [][StartsTimer =>
          /\ LastTimer.state = "sleeping"
          /\ LastTimer.remaining =
                IF SplitCount(LastHeard) <= SHORT_FRAGMENT_TOKENS
                      \/ EndsWith(LastHeard, <<".", ".", ".">>)
                      \/ EndsWith(LastHeard, SourceEllipsisLiteral)
                THEN _debounce_short_window
                ELSE _debounce_window]_vars

====
